---- MODULE Spec2Model ----
(***************************************************************************)
(* Webhook receiver of openai-chatkit-starter-app.                         *)
(*                                                                         *)
(* The repository holds two copies of the webhook route:                   *)
(*   src/app/api/webhooks/openai/route.ts   (events typed `any`)           *)
(*   src/unnamed/part_000                   (events typed `unknown`,       *)
(*                                           with isObj / asString)        *)
(* A request is served by one of the two; `impl` says which.               *)
(*                                                                         *)
(* Strings are sequences of one-character strings, so that trim, the       *)
(* `sha256=` prefix, /completed/i, String() and JSON.stringify are         *)
(* computed and not assumed.  A JSON value is a record tagged by `t`:      *)
(*   undef | null | str | num | bool | arr | obj                           *)
(* `v` is the text of a scalar, `e` the elements of an array, `f` the      *)
(* fields of an object (a field holding Undef is an absent key: property   *)
(* access cannot tell the two apart and JSON has no undefined).            *)
(***************************************************************************)
EXTENDS Integers, Sequences, FiniteSets, TLC

VARIABLES env, impl, req, pc, valid, evt, agent, row, resp, appended, sheetLen,
          calls, vin, vout, xin, xout, rin, rout, inv, sheet,
          scriptStatus, errors, isInitializingSession, isMounted, customElement,
          timeoutId, widgetInstanceKey, processedFacts, isWorkflowConfigured,
          externalCaller, secretCall, errorLog, factLog, toolReturn,
          now, received, chains, inputReady, inputValue

webVars == <<env, impl, req, pc, valid, evt, agent, row, resp, appended, sheetLen, calls>>
verVars == <<vin, vout>>
extVars == <<xin, xout>>
resVars == <<rin, rout>>
conVars == <<inv, sheet>>
panelVars == <<scriptStatus, errors, isInitializingSession, isMounted, customElement,
               timeoutId, widgetInstanceKey, processedFacts, isWorkflowConfigured,
               externalCaller, secretCall, errorLog, factLog, toolReturn>>
\* the record of the forwarded facts and the answer to the last tool call
factVars == <<factLog, toolReturn>>
\* the message bridge: the clock, the messages, the retry chains, the input
bridgeVars == <<now, received, chains, inputReady, inputValue>>
\* everything but the state of the invocations side by side
nonConVars == <<impl, req, pc, valid, evt, agent, row, resp, appended, sheetLen, calls,
                verVars, extVars, resVars, panelVars, bridgeVars>>
\* everything but the state of the webhook handler
nonWebVars == <<verVars, extVars, resVars, conVars, panelVars, bridgeVars>>
\* everything but the state of the chat panel
nonPanelVars == <<env, impl, req, pc, valid, evt, agent, row, resp, appended, sheetLen,
                  calls, verVars, extVars, resVars, conVars, bridgeVars>>
\* everything but the state of the message bridge
nonBridgeVars == <<env, impl, req, pc, valid, evt, agent, row, resp, appended, sheetLen,
                   calls, verVars, extVars, resVars, conVars, panelVars>>
vars == <<env, impl, req, pc, valid, evt, agent, row, resp, appended, sheetLen,
          calls, vin, vout, xin, xout, rin, rout, inv, sheet, panelVars, bridgeVars>>

----------------------------------------------------------------------------
(* Bounds *)

\* rows the sheet may hold before the model stops taking requests
MaxRows == 2
\* resets of the chat panel
MaxResets == 1
\* widget errors the console keeps
MaxLogged == 1
\* hex digits of a digest in the model (64 in SHA-256)
DigestLen == 3
\* window messages the bridge receives
MaxMessages == 2
\* entries the record of forwarded facts keeps
MaxFactLog == 3

----------------------------------------------------------------------------
(* Strings *)

sEmpty == <<>>
sCompleted == <<"c","o","m","p","l","e","t","e","d">>
sRunCompleted == <<"r","u","n",".">> \o sCompleted
sRunCompletedUpper == <<"R","U","N",".","C","O","M","P","L","E","T","E","D">>
sRunStarted == <<"r","u","n",".","s","t","a","r","t","e","d">>
sTrue == <<"t","r","u","e">>
sFalse == <<"f","a","l","s","e">>
sNullText == <<"n","u","l","l">>
sUndefinedText == <<"u","n","d","e","f","i","n","e","d">>
sObjectObject == <<"[","o","b","j","e","c","t"," ","O","b","j","e","c","t","]">>
sPrefix == <<"s","h","a","2","5","6","=">>
sA1 == <<"a","1">>
sA2 == <<"a","2">>
sN1 == <<"N","1">>
sN2 == <<"N","2">>
sR1 == <<"r","1">>
sR2 == <<"r","2">>
sU1 == <<"u","1">>
sU2 == <<"u","2">>
sU3 == <<"u","3">>
sK1 == <<"k","1">>
sK2 == <<"k","2">>
sWorkflowUnset ==
  <<"S","e","t"," ","N","E","X","T","_","P","U","B","L","I","C","_","C","H","A","T","K","I",
    "T","_","W","O","R","K","F","L","O","W","_","I","D"," ","i","n"," ","y","o","u","r"," ",
    ".","e","n","v",".","l","o","c","a","l"," ","f","i","l","e",".">>
sUnavailable ==
  <<"C","h","a","t","K","i","t"," ","w","e","b"," ","c","o","m","p","o","n","e","n","t"," ",
    "i","s"," ","u","n","a","v","a","i","l","a","b","l","e","."," ","V","e","r","i","f","y",
    " ","t","h","a","t"," ","t","h","e"," ","s","c","r","i","p","t"," ","U","R","L"," ","i",
    "s"," ","r","e","a","c","h","a","b","l","e",".">>
sUnknownError == <<"u","n","k","n","o","w","n"," ","e","r","r","o","r">>
sErrorColon == <<"E","r","r","o","r",":"," ">>
sMissingClientSecret ==
  <<"M","i","s","s","i","n","g"," ","c","l","i","e","n","t"," ","s","e","c","r","e","t"," ",
    "i","n"," ","r","e","s","p","o","n","s","e">>
sFailedToFetch == <<"F","a","i","l","e","d"," ","t","o"," ","f","e","t","c","h">>
sBadRequest == <<"B","a","d"," ","R","e","q","u","e","s","t">>
sOK == <<"O","K">>
sAllowedOrigin ==
  <<"h","t","t","p","s",":","/","/","d","k","s","i","n","s","u","r","a","n","c","e",
    ".","c","o","m">>
sInitPrompt == <<"I","N","I","T","_","P","R","O","M","P","T">>
sInitPromptLower == <<"i","n","i","t","_","p","r","o","m","p","t">>
sP1 == <<"p","1">>
sP2 == <<"p","2">>
sTimestamp == <<"2","0","2","5","-","0","1","-","0","1","T","0","0",":","0","0",":","0","0",".","0","0","0","Z">>

\* String.prototype.toLowerCase on the letters the model uses
LowerChar(c) ==
  CASE c = "C" -> "c" [] c = "O" -> "o" [] c = "M" -> "m" [] c = "P" -> "p"
    [] c = "L" -> "l" [] c = "E" -> "e" [] c = "T" -> "t" [] c = "D" -> "d"
    [] c = "R" -> "r" [] c = "U" -> "u" [] c = "N" -> "n" [] c = "A" -> "a"
    [] c = "B" -> "b" [] c = "F" -> "f"
    [] OTHER -> c

Lower(s) == [i \in 1..Len(s) |-> LowerChar(s[i])]

\* s.includes(sub)
Contains(s, sub) ==
  \E i \in 1..(Len(s) - Len(sub) + 1) : SubSeq(s, i, i + Len(sub) - 1) = sub

StartsWith(s, p) == Len(s) >= Len(p) /\ SubSeq(s, 1, Len(p)) = p

IsSpace(c) == c \in {" ", "\t", "\n"}

RECURSIVE TrimStart(_)
TrimStart(s) ==
  IF s # <<>> /\ IsSpace(s[1]) THEN TrimStart(Tail(s)) ELSE s

RECURSIVE TrimEnd(_)
TrimEnd(s) ==
  IF s # <<>> /\ IsSpace(s[Len(s)]) THEN TrimEnd(SubSeq(s, 1, Len(s) - 1)) ELSE s

\* String.prototype.trim
Trim(s) == TrimEnd(TrimStart(s))

----------------------------------------------------------------------------
(* JSON values *)

Undef == [t |-> "undef"]
Null == [t |-> "null"]
Str(s) == [t |-> "str", v |-> s]
Num(s) == [t |-> "num", v |-> s]
Bool(s) == [t |-> "bool", v |-> s]
Arr(es) == [t |-> "arr", e |-> es]
Obj(fs) == [t |-> "obj", f |-> fs]

JTrue == Bool(sTrue)
JFalse == Bool(sFalse)
Num0 == Num(<<"0">>)
Num1 == Num(<<"1">>)
Num5 == Num(<<"5">>)

\* x.k and x["k"]: undefined on a scalar, on an array and on a missing key
Get(x, k) ==
  IF x.t = "obj" /\ k \in DOMAIN x.f THEN x.f[k] ELSE Undef

\* x === null || x === undefined
Nullish(x) == x.t \in {"undef", "null"}

\* ToBoolean
Truthy(x) ==
  CASE x.t \in {"undef", "null"} -> FALSE
    [] x.t = "str" -> x.v # <<>>
    [] x.t = "num" -> x.v # <<"0">>
    [] x.t = "bool" -> x.v = sTrue
    [] OTHER -> TRUE

\* a ?? b
Coalesce(a, b) == IF Nullish(a) THEN b ELSE a

\* a || b
OrElse(a, b) == IF Truthy(a) THEN a ELSE b

\* x?.k
OptGet(x, k) == IF Nullish(x) THEN Undef ELSE Get(x, k)

RECURSIVE StringThrows(_)
\* String(x) throws a TypeError: an object parsed from JSON with a key
\* `toString` of its own has no callable toString, and valueOf gives back
\* the object; an array throws when the join reaches such an element
StringThrows(x) ==
  CASE x.t = "obj" -> "toString" \in DOMAIN x.f /\ x.f["toString"].t # "undef"
    [] x.t = "arr" -> \E n \in 1..Len(x.e) : ~Nullish(x.e[n]) /\ StringThrows(x.e[n])
    [] OTHER -> FALSE

RECURSIVE JoinComma(_)
RECURSIVE JsString(_)
\* String(x), where it does not throw
JsString(x) ==
  CASE x.t = "undef" -> sUndefinedText
    [] x.t = "null" -> sNullText
    [] x.t = "arr" -> JoinComma(x.e)
    [] x.t = "obj" -> sObjectObject
    [] OTHER -> x.v

\* Array.prototype.join(","): null and undefined elements give ""
JoinComma(es) ==
  IF es = <<>> THEN <<>>
  ELSE LET head == IF Nullish(es[1]) THEN <<>> ELSE JsString(es[1])
       IN IF Len(es) = 1 THEN head ELSE head \o <<",">> \o JoinComma(Tail(es))

Quote(s) == <<"\"">> \o s \o <<"\"">>

RECURSIVE StringifyElems(_)
RECURSIVE JsonStringify(_)
\* JSON.stringify(x) for a parsed JSON value; an object of the model has at
\* most one key, a one-character name
JsonStringify(x) ==
  CASE x.t = "null" -> sNullText
    [] x.t = "str" -> Quote(x.v)
    [] x.t = "arr" -> <<"[">> \o StringifyElems(x.e) \o <<"]">>
    [] x.t = "obj" ->
         LET present == {k \in DOMAIN x.f : x.f[k].t # "undef"}
         IN IF present = {} THEN <<"{", "}">>
            ELSE LET k == CHOOSE k \in present : TRUE
                 IN <<"{">> \o Quote(<<k>>) \o <<":">> \o JsonStringify(x.f[k]) \o <<"}">>
    [] OTHER -> x.v

StringifyElems(es) ==
  IF es = <<>> THEN <<>>
  ELSE IF Len(es) = 1 THEN JsonStringify(es[1])
  ELSE JsonStringify(es[1]) \o <<",">> \o StringifyElems(Tail(es))

----------------------------------------------------------------------------
(* Events *)

AgentObj(id, name) == Obj([id |-> id, name |-> name])
LastStepObj(a) == Obj([agent |-> a])
ScopeObj(u) == Obj([user_id |-> u])

NoStepFields ==
  [agent |-> Undef, agent_id |-> Undef, agent_name |-> Undef,
   result |-> Undef, output |-> Undef]

NoRunFields ==
  [id |-> Undef, user_id |-> Undef, last_step |-> Undef, agent_id |-> Undef,
   agent_name |-> Undef, result |-> Undef]

NoEventFields ==
  [type |-> Undef, event |-> Undef, agent |-> Undef, target_agent |-> Undef,
   step |-> Undef, run |-> Undef, agent_id |-> Undef, agent_name |-> Undef,
   run_id |-> Undef, user_id |-> Undef, scope |-> Undef, result |-> Undef,
   output |-> Undef, data |-> Undef]

ResultX1 == Obj([x |-> Num1])

\* {type:"run.completed"}
CompletedFields == [NoEventFields EXCEPT !.type = Str(sRunCompleted)]

\* the agent identity at every location the handler probes
IdentityEvents ==
  { Obj([CompletedFields EXCEPT !.agent = a, !.target_agent = ta, !.step = st,
                                !.run = rn, !.agent_id = fid, !.agent_name = fnm]) :
      a \in {Undef, AgentObj(Str(sA1), Str(sN1)), AgentObj(Str(sA2), Undef),
             AgentObj(Undef, Undef), AgentObj(Num5, Str(sN1)), Str(<<"x">>)},
      ta \in {Undef, AgentObj(Str(sA2), Str(sN2))},
      st \in {Undef, Str(<<"s">>),
              Obj([NoStepFields EXCEPT !.agent = AgentObj(Str(sA1), Undef)]),
              Obj([NoStepFields EXCEPT !.agent_name = Str(sN2)])},
      rn \in {Undef,
              Obj([NoRunFields EXCEPT !.last_step = LastStepObj(AgentObj(Str(sA1), Str(sN1)))]),
              Obj([NoRunFields EXCEPT !.agent_id = Str(sA2), !.agent_name = Str(sN1)])},
      fid \in {Undef, Str(sA1), Num5},
      fnm \in {Undef, Str(sN1)} }

\* the identity cases a request of the handler's specification carries
FilterEvents ==
  { Obj([CompletedFields EXCEPT !.agent = a, !.step = st, !.result = ResultX1]) :
      a \in {Undef, AgentObj(Str(sA1), Str(sN1)), AgentObj(Str(sA2), Str(sN1)),
             AgentObj(Str(sA1), Undef), AgentObj(Undef, Undef),
             AgentObj(Num5, Str(sN1))},
      st \in {Undef, Obj([NoStepFields EXCEPT !.agent = AgentObj(Str(sA1), Undef)])} }
  \cup
  { Obj([CompletedFields EXCEPT !.agent_id = fid, !.step = st, !.result = ResultX1]) :
      fid \in {Str(sA1), Num5},
      st \in {Undef, Obj([NoStepFields EXCEPT !.agent_name = Str(sN1)])} }

\* the event-type discriminator, at `type` and at `event`
TypeEvents ==
  { Obj([NoEventFields EXCEPT !.type = ty, !.event = ev,
                              !.agent = AgentObj(Str(sA1), Str(sN1)),
                              !.result = ResultX1]) :
      ty \in {Undef, Null, Str(sRunCompleted), Str(sRunCompletedUpper),
              Str(sRunStarted), Str(sEmpty), Num5, Arr(<<Str(sCompleted)>>)},
      ev \in {Undef, Str(sRunCompleted), Str(sRunStarted)} }

\* run id and user id at each place they may live
IdEvents ==
  { Obj([CompletedFields EXCEPT !.agent = AgentObj(Str(sA1), Str(sN1)),
                                !.run_id = rid, !.user_id = uid, !.scope = sc,
                                !.run = rn, !.result = ResultX1]) :
      rid \in {Undef, Null, Str(sR1), Num5},
      uid \in {Undef, Str(sU1)},
      sc \in {Undef, ScopeObj(Str(sU2))},
      rn \in {Undef, Str(<<"x">>),
              Obj([NoRunFields EXCEPT !.id = Str(sR2), !.user_id = Str(sU3)])} }

\* the result payload at each place it may live
ResultEvents ==
  { Obj([CompletedFields EXCEPT !.agent = AgentObj(Str(sA1), Str(sN1)),
                                !.result = r, !.output = o, !.step = st]) :
      r \in {Undef, Null, ResultX1, Num0, JFalse, Str(sEmpty), Str(<<"h","i">>),
             Arr(<<Num1, Null>>)},
      o \in {Undef, Str(<<"o">>)},
      st \in {Undef, Obj([NoStepFields EXCEPT !.result = Num5])} }

\* {"toString":1}
ToStringObj == Obj([toString |-> Num1])

\* events with an object that String() cannot convert, at each place the
\* handler applies String()
ThrowEvents ==
  { Obj([NoEventFields EXCEPT !.type = ToStringObj]),
    Obj([NoEventFields EXCEPT !.type = Arr(<<ToStringObj>>)]),
    Obj([CompletedFields EXCEPT !.event = ToStringObj,
                                !.agent = AgentObj(Str(sA1), Str(sN1)), !.result = ResultX1]),
    Obj([CompletedFields EXCEPT !.agent = AgentObj(Str(sA1), Str(sN1)),
                                !.run_id = ToStringObj, !.result = ResultX1]),
    Obj([CompletedFields EXCEPT !.agent = AgentObj(Str(sA1), Str(sN1)),
                                !.user_id = ToStringObj, !.result = ResultX1]) }

\* the result payload at each of its six places, for extractAgentResult alone
PayloadEvents ==
  { Obj([CompletedFields EXCEPT !.result = r, !.output = o, !.data = d,
                                !.step = st, !.run = rn]) :
      r \in {Undef, Null, Num0, JFalse, Str(sEmpty), ResultX1},
      o \in {Undef, Null, Str(<<"o">>)},
      d \in {Undef, Num5},
      st \in {Undef, Str(<<"s">>),
              Obj([NoStepFields EXCEPT !.result = Str(<<"h","i">>)]),
              Obj([NoStepFields EXCEPT !.output = Arr(<<Num1, Null>>)]),
              Obj([NoStepFields EXCEPT !.result = Null, !.output = JFalse])},
      rn \in {Undef, Obj([NoRunFields EXCEPT !.result = JTrue])} }

\* valid JSON that is not an object
ScalarValues ==
  {Null, Num0, Num5, JFalse, JTrue, Str(sEmpty), Str(sCompleted), Arr(<<>>)}

EmptyBody == [kind |-> "empty", val |-> Undef]
InvalidBody == [kind |-> "invalid", val |-> Undef]
JsonBody(v) == [kind |-> "json", val |-> v]

\* a raw request body, told apart by what JSON.parse makes of it: the empty
\* text, a text that is not JSON, or the text of a JSON value
PostBodies ==
  {EmptyBody, InvalidBody}
  \cup {JsonBody(v) : v \in ScalarValues \cup FilterEvents \cup TypeEvents
                            \cup IdEvents \cup ResultEvents \cup ThrowEvents}

VerifyBodies ==
  {EmptyBody, InvalidBody, JsonBody(Num0), JsonBody(Obj(CompletedFields))}

AllBodies == PostBodies \cup VerifyBodies

Keys == {sK1, sK2}

----------------------------------------------------------------------------
(* Signature verification *)

HexDigits == <<"0","1","2","3","4","5","6","7","8","9","a","b","c","d","e","f">>

RECURSIVE Pow16(_)
Pow16(n) == IF n = 0 THEN 1 ELSE 16 * Pow16(n - 1)

RECURSIVE ToHex(_, _)
\* n as `len` lowercase hex digits
ToHex(n, len) ==
  IF len = 0 THEN <<>>
  ELSE ToHex(n \div 16, len - 1) \o <<HexDigits[(n % 16) + 1]>>

RECURSIVE Enumerate(_)
Enumerate(S) ==
  IF S = {} THEN <<>>
  ELSE LET x == CHOOSE x \in S : TRUE IN <<x>> \o Enumerate(S \ {x})

\* every body of the model, family by family
BodyList ==
  Enumerate(VerifyBodies)
  \o Enumerate({JsonBody(v) : v \in ScalarValues})
  \o Enumerate({JsonBody(v) : v \in FilterEvents})
  \o Enumerate({JsonBody(v) : v \in TypeEvents})
  \o Enumerate({JsonBody(v) : v \in IdEvents})
  \o Enumerate({JsonBody(v) : v \in ResultEvents})
  \o Enumerate({JsonBody(v) : v \in ThrowEvents})
KeyList == Enumerate(Keys)

IndexIn(list, x) == CHOOSE i \in 1..Len(list) : list[i] = x

\* crypto.createHmac("sha256", secret).update(body, "utf8").digest("hex"):
\* a keyed digest of fixed length in lowercase hex, which tells apart any two
\* (body, secret) pairs of the model as long as they fit its length
HmacHex(body, secret) ==
  ToHex((((IndexIn(BodyList, body) - 1) * Len(KeyList)
          + (IndexIn(KeyList, secret) - 1)) * 7 + 3) % Pow16(DigestLen),
        DigestLen)

\* provided.replace(/^sha256=/, "")
StripPrefix(provided) ==
  IF StartsWith(provided, sPrefix)
  THEN SubSeq(provided, Len(sPrefix) + 1, Len(provided))
  ELSE provided

\* crypto.timingSafeEqual on two buffers of one length
TimingSafeEqual(a, b) == \A i \in 1..Len(a) : a[i] = b[i]

\* verifyHmacSha256 comparing the lengths only
verifyLengthOnly(body, secret, provided) ==
  LET a == HmacHex(body, secret)
      b == StripPrefix(provided)
  IN Len(a) = Len(b)

\* verifyHmacSha256 without the `sha256=` prefix removed
verifyNoStrip(body, secret, provided) ==
  LET a == HmacHex(body, secret)
      b == provided
  IN Len(a) = Len(b) /\ TimingSafeEqual(a, b)

verifyHmacSha256(body, secret, provided) ==
  LET a == HmacHex(body, secret)
      b == StripPrefix(provided)
  IN Len(a) = Len(b) /\ TimingSafeEqual(a, b)

\* a character that differs from c
OtherHex(c) == IF c = "0" THEN "1" ELSE "0"

UpperHex(c) ==
  CASE c = "a" -> "A" [] c = "b" -> "B" [] c = "c" -> "C" [] c = "d" -> "D"
    [] c = "e" -> "E" [] c = "f" -> "F" [] OTHER -> c

\* signatures a sender may provide, built around the digest h
SignaturesAround(h) ==
  { h, sPrefix \o h, sPrefix \o sPrefix \o h, h \o sPrefix, <<" ">> \o h,
    SubSeq(h, 1, Len(h) - 1), h \o <<"0">>,
    [h EXCEPT ![1] = OtherHex(h[1])], [h EXCEPT ![Len(h)] = OtherHex(h[Len(h)])],
    sPrefix \o [h EXCEPT ![1] = OtherHex(h[1])],
    [i \in 1..Len(h) |-> UpperHex(h[i])],
    <<"S","H","A","2","5","6","=">> \o h }

VerifySignatures ==
  {sEmpty, sPrefix}
  \cup UNION { SignaturesAround(HmacHex(b, k)) : b \in VerifyBodies, k \in Keys }

InitVerify ==
  /\ vin \in [body : VerifyBodies, secret : Keys, provided : VerifySignatures]
  /\ vout = "none"

\* one call of verifyHmacSha256
Verify ==
  /\ vout = "none"
  /\ vout' = IF verifyHmacSha256(vin.body, vin.secret, vin.provided) THEN "true" ELSE "false"
  /\ UNCHANGED vin

----------------------------------------------------------------------------
(* Field extraction *)

Impls == {"route", "part_000"}

\* value !== null && typeof value === "object"
isObj(x) == x.t \in {"obj", "arr"}

\* typeof value === "string" ? value : undefined
asString(x) == IF x.t = "str" THEN x ELSE Undef

\* the object { id, name } that extractAgent returns
Identity(id, name) == Obj([id |-> id, name |-> name])

\* extractAgent of route.ts
extractAgentRoute(e) ==
  LET fromRoot == OrElse(OrElse(Get(e, "agent"), Get(e, "target_agent")), Null)
      fromStep == OrElse(OrElse(OptGet(Get(e, "step"), "agent"),
                                OptGet(OptGet(Get(e, "run"), "last_step"), "agent")),
                         Null)
      id == Coalesce(Coalesce(Get(e, "agent_id"), OptGet(Get(e, "step"), "agent_id")),
                     OptGet(Get(e, "run"), "agent_id"))
      name == Coalesce(Coalesce(Get(e, "agent_name"), OptGet(Get(e, "step"), "agent_name")),
                       OptGet(Get(e, "run"), "agent_name"))
  IN IF Truthy(fromRoot) THEN Identity(Get(fromRoot, "id"), Get(fromRoot, "name"))
     ELSE IF Truthy(fromStep) THEN Identity(Get(fromStep, "id"), Get(fromStep, "name"))
     ELSE IF Truthy(id) \/ Truthy(name) THEN Identity(id, name)
     ELSE Null

\* extractAgent of part_000
extractAgentPart(e) ==
  LET rootAgent == IF isObj(Get(e, "agent")) THEN Get(e, "agent") ELSE Null
      targetAgent == IF isObj(Get(e, "target_agent")) THEN Get(e, "target_agent") ELSE Null
      fromRoot == OrElse(rootAgent, targetAgent)
      step == IF isObj(Get(e, "step")) THEN Get(e, "step") ELSE Null
      run == IF isObj(Get(e, "run")) THEN Get(e, "run") ELSE Null
      lastStep == IF isObj(OptGet(run, "last_step")) THEN OptGet(run, "last_step") ELSE Null
      stepAgent == IF isObj(OptGet(step, "agent")) THEN OptGet(step, "agent") ELSE Null
      runLastStepAgent ==
        IF isObj(OptGet(lastStep, "agent")) THEN OptGet(lastStep, "agent") ELSE Null
      fromStep == OrElse(OrElse(stepAgent, runLastStepAgent), Null)
      id == Coalesce(Coalesce(Get(e, "agent_id"),
                              IF isObj(step) THEN Get(step, "agent_id") ELSE Undef),
                     IF isObj(run) THEN Get(run, "agent_id") ELSE Undef)
      name == Coalesce(Coalesce(Get(e, "agent_name"),
                                IF isObj(step) THEN Get(step, "agent_name") ELSE Undef),
                       IF isObj(run) THEN Get(run, "agent_name") ELSE Undef)
  IN IF Truthy(fromRoot)
     THEN Identity(asString(Get(fromRoot, "id")), asString(Get(fromRoot, "name")))
     ELSE IF Truthy(fromStep)
     THEN Identity(asString(Get(fromStep, "id")), asString(Get(fromStep, "name")))
     ELSE IF Truthy(id) \/ Truthy(name) THEN Identity(asString(id), asString(name))
     ELSE Null

extractAgent(i, e) == IF i = "route" THEN extractAgentRoute(e) ELSE extractAgentPart(e)

\* extractAgentResult of route.ts
extractAgentResultRoute(e) ==
  Coalesce(Coalesce(Coalesce(Coalesce(Coalesce(Coalesce(
    Get(e, "result"),
    Get(e, "output")),
    Get(e, "data")),
    OptGet(Get(e, "step"), "result")),
    OptGet(Get(e, "step"), "output")),
    OptGet(Get(e, "run"), "result")),
    Null)

\* extractAgentResult of part_000
extractAgentResultPart(e) ==
  Coalesce(Coalesce(Coalesce(Coalesce(Coalesce(Coalesce(
    Get(e, "result"),
    Get(e, "output")),
    Get(e, "data")),
    IF isObj(Get(e, "step")) THEN Get(Get(e, "step"), "result") ELSE Undef),
    IF isObj(Get(e, "step")) THEN Get(Get(e, "step"), "output") ELSE Undef),
    IF isObj(Get(e, "run")) THEN Get(Get(e, "run"), "result") ELSE Undef),
    Null)

\* extractAgentResult taking the first truthy value instead
extractAgentResultTruthy(i, e) ==
  OrElse(OrElse(OrElse(OrElse(OrElse(OrElse(
    Get(e, "result"),
    Get(e, "output")),
    Get(e, "data")),
    Get(Get(e, "step"), "result")),
    Get(Get(e, "step"), "output")),
    Get(Get(e, "run"), "result")),
    Null)

extractAgentResult(i, e) ==
  IF i = "route" THEN extractAgentResultRoute(e) ELSE extractAgentResultPart(e)

InitExtract ==
  /\ xin \in [impl : Impls, evt : IdentityEvents]
  /\ xout = Undef

\* one call of extractAgent
Extract ==
  /\ xout = Undef
  /\ xout' = extractAgent(xin.impl, xin.evt)
  /\ UNCHANGED xin

InitResult ==
  /\ rin \in [impl : Impls, evt : PayloadEvents]
  /\ rout = Undef

\* one call of extractAgentResult
ExtractResult ==
  /\ rout = Undef
  /\ rout' = extractAgentResult(rin.impl, rin.evt)
  /\ UNCHANGED rin

----------------------------------------------------------------------------
(* The chat panel: src/components/ChatKitPanel.tsx *)

\* createInitialErrors()
createInitialErrors ==
  [script |-> Null, session |-> Null, integration |-> Null, retryable |-> FALSE]

\* setErrors((current) => ({ ...current, ...updates }))
setErrorState(current, updates) ==
  [k \in DOMAIN current |-> IF k \in DOMAIN updates THEN updates[k] ELSE current[k]]

\* const activeError = errors.session ?? errors.integration
activeError(errs) == Coalesce(errs.session, errs.integration)

\* const blockingError = errors.script ?? activeError
blockingError(errs) == Coalesce(errs.script, activeError(errs))

\* the error operand of the className test of <ChatKit>: `blockingError ||`
BlockedByError(errs) == Truthy(blockingError(errs))

\* the className of <ChatKit>: "pointer-events-none opacity-0" or shown
WidgetHidden(errs, initializing) == BlockedByError(errs) \/ initializing

\* onRetry of the overlay is handleResetChat and not null
RetryOffered(errs) == Truthy(blockingError(errs)) /\ errs.retryable

\* no call of getClientSecret in flight
NoCall == [pc |-> "idle", currentSecret |-> Null, reply |-> Undef, out |-> Undef]

\* the body of the script detection effect: the element is there
\* (handleLoaded), or the wait for it starts while the status is pending
RunScriptEffect(status, errs, registered) ==
  IF registered
  THEN [scriptStatus |-> "ready", errors |-> setErrorState(errs, [script |-> Null]),
        timeoutId |-> "none"]
  ELSE [scriptStatus |-> status, errors |-> errs,
        timeoutId |-> IF status = "pending" THEN "armed" ELSE "none"]

\* the effect depends on scriptStatus: a change of it cleans the effect up
\* (listeners off, timer cleared) and runs it again
AfterStatus(old, new, errs, timer, registered) ==
  IF new = old
  THEN [scriptStatus |-> new, errors |-> errs, timeoutId |-> timer]
  ELSE RunScriptEffect(new, errs, registered)

\* the record of the calls of onWidgetAction after a clear of
\* processedFacts; the record stops when it is full, and a clear before any
\* call or after another clear is not marked again
LogCleared(log) ==
  IF log = <<>> \/ log[Len(log)] = "clear" \/ Len(log) >= MaxFactLog
  THEN log
  ELSE Append(log, "clear")

\* the record of the calls of onWidgetAction after onWidgetAction({factId: id})
LogForwarded(log, id) ==
  IF Len(log) >= MaxFactLog THEN log ELSE Append(log, id)

\* the state after the first render and its effects
Mounted(registered, configured, external) ==
  LET status == IF registered THEN "ready" ELSE "pending"
      errs == IF ~configured
              THEN setErrorState(createInitialErrors,
                                 [session |-> Str(sWorkflowUnset), retryable |-> FALSE])
              ELSE createInitialErrors
      eff == RunScriptEffect(status, errs, registered)
  IN /\ scriptStatus = eff.scriptStatus
     /\ errors = eff.errors
     /\ timeoutId = eff.timeoutId
     /\ isInitializingSession = configured
     /\ isMounted = TRUE
     /\ customElement = registered
     /\ widgetInstanceKey = 0
     /\ processedFacts = {}
     /\ isWorkflowConfigured = configured
     /\ externalCaller = external
     /\ secretCall = NoCall
     /\ errorLog = 0
     /\ factLog = <<>>
     /\ toolReturn = Undef

PanelIdle == Mounted(TRUE, TRUE, FALSE)

InitPanel == \E registered, configured, external \in BOOLEAN :
               Mounted(registered, configured, external)

\* customElements.define("openai-chatkit", ...) by the hosted script
ElementRegistered ==
  /\ ~customElement
  /\ customElement' = TRUE
  /\ UNCHANGED <<scriptStatus, errors, isInitializingSession, isMounted, timeoutId,
                 widgetInstanceKey, processedFacts, isWorkflowConfigured, externalCaller,
                 secretCall, errorLog, factVars, nonPanelVars>>

\* handleLoaded, on the window event "chatkit-script-loaded"
ScriptLoaded ==
  /\ isMounted
  /\ LET after == AfterStatus(scriptStatus, "ready",
                              setErrorState(errors, [script |-> Null]),
                              timeoutId, customElement)
     IN /\ scriptStatus' = after.scriptStatus
        /\ errors' = after.errors
        /\ timeoutId' = after.timeoutId
  /\ UNCHANGED <<isInitializingSession, isMounted, customElement, widgetInstanceKey,
                 processedFacts, isWorkflowConfigured, externalCaller, secretCall,
                 errorLog, factVars, nonPanelVars>>

\* the detail an error event may carry
ErrorDetails == {Undef, Str(<<"4","0","4">>)}

\* `Error: ${detail}` with detail = event.detail ?? "unknown error"
ScriptErrorMessage(detail) ==
  Str(sErrorColon \o JsString(Coalesce(detail, Str(sUnknownError))))

\* handleError replacing the errors instead of merging into them
handleErrorReplacingErrors(detail) ==
  LET after == AfterStatus(scriptStatus, "error",
                           setErrorState(createInitialErrors,
                                         [script |-> ScriptErrorMessage(detail)]),
                           timeoutId, customElement)
  IN /\ scriptStatus' = after.scriptStatus
     /\ errors' = after.errors
     /\ timeoutId' = after.timeoutId
     /\ isInitializingSession' = FALSE

\* handleError offering the retry
handleErrorRetryable(detail) ==
  LET after == AfterStatus(scriptStatus, "error",
                           setErrorState(errors, [script |-> ScriptErrorMessage(detail),
                                                  retryable |-> TRUE]),
                           timeoutId, customElement)
  IN /\ scriptStatus' = after.scriptStatus
     /\ errors' = after.errors
     /\ timeoutId' = after.timeoutId
     /\ isInitializingSession' = FALSE

\* handleError(event) while mounted: the state it sets, and the effect after it
handleError(detail) ==
  LET after == AfterStatus(scriptStatus, "error",
                           setErrorState(errors, [script |-> ScriptErrorMessage(detail),
                                                  retryable |-> FALSE]),
                           timeoutId, customElement)
  IN /\ scriptStatus' = after.scriptStatus
     /\ errors' = after.errors
     /\ timeoutId' = after.timeoutId
     /\ isInitializingSession' = FALSE

\* handleError, on the window event "chatkit-script-error"
ScriptError ==
  /\ isMounted
  /\ \E detail \in ErrorDetails : handleError(detail)
  /\ UNCHANGED <<isMounted, customElement, widgetInstanceKey, processedFacts,
                 isWorkflowConfigured, externalCaller, secretCall, errorLog, factVars, nonPanelVars>>

\* the 5000 ms timer of the effect fires
TimeoutFires ==
  /\ timeoutId = "armed"
  /\ IF ~customElement
     THEN handleError(Str(sUnavailable))
     ELSE /\ timeoutId' = "none"
          /\ UNCHANGED <<scriptStatus, errors, isInitializingSession>>
  /\ UNCHANGED <<isMounted, customElement, widgetInstanceKey, processedFacts,
                 isWorkflowConfigured, externalCaller, secretCall, errorLog, factVars, nonPanelVars>>

\* the component unmounts: isMountedRef.current = false, listeners off, timer cleared
Unmount ==
  /\ isMounted
  /\ isMounted' = FALSE
  /\ timeoutId' = "none"
  /\ UNCHANGED <<scriptStatus, errors, isInitializingSession, customElement,
                 widgetInstanceKey, processedFacts, isWorkflowConfigured, externalCaller,
                 secretCall, errorLog, factVars, nonPanelVars>>

\* handleResetChat with the facts kept
handleResetChatKeepingFacts ==
  /\ isMounted
  /\ widgetInstanceKey < MaxResets
  /\ externalCaller \/ RetryOffered(errors)
  /\ LET after == AfterStatus(scriptStatus, IF customElement THEN "ready" ELSE "pending",
                              createInitialErrors, timeoutId, customElement)
     IN /\ scriptStatus' = after.scriptStatus
        /\ errors' = after.errors
        /\ timeoutId' = after.timeoutId
  /\ isInitializingSession' = TRUE
  /\ widgetInstanceKey' = widgetInstanceKey + 1
  /\ UNCHANGED <<isMounted, customElement, processedFacts, isWorkflowConfigured,
                 externalCaller, secretCall, errorLog, factVars, nonPanelVars>>

\* handleResetChat, called by the overlay's retry button when it is offered,
\* or by a caller outside the component
handleResetChat ==
  /\ isMounted
  /\ widgetInstanceKey < MaxResets
  /\ externalCaller \/ RetryOffered(errors)
  /\ processedFacts' = {}
  /\ factLog' = LogCleared(factLog)
  /\ LET after == AfterStatus(scriptStatus, IF customElement THEN "ready" ELSE "pending",
                              createInitialErrors, timeoutId, customElement)
     IN /\ scriptStatus' = after.scriptStatus
        /\ errors' = after.errors
        /\ timeoutId' = after.timeoutId
  /\ isInitializingSession' = TRUE
  /\ widgetInstanceKey' = widgetInstanceKey + 1
  /\ UNCHANGED <<isMounted, customElement, isWorkflowConfigured, externalCaller,
                 secretCall, errorLog, toolReturn, nonPanelVars>>

\* typeof x === "object" && x !== null ... && "k" in x && typeof x.k === "string"
HasStringField(x, k) == x.t = "obj" /\ Get(x, k).t = "str"

\* extractErrorDetail(payload, fallback)
extractErrorDetail(payload, fallback) ==
  LET error == Get(payload, "error")
      details == Get(payload, "details")
      nestedError == Get(details, "error")
  IN IF ~Truthy(payload) THEN fallback
     ELSE IF error.t = "str" THEN error.v
     ELSE IF HasStringField(error, "message") THEN Get(error, "message").v
     ELSE IF details.t = "str" THEN details.v
     ELSE IF details.t = "obj" /\ nestedError.t = "str" THEN nestedError.v
     ELSE IF details.t = "obj" /\ HasStringField(nestedError, "message")
     THEN Get(nestedError, "message").v
     ELSE IF Get(payload, "message").t = "str" THEN Get(payload, "message").v
     ELSE fallback

\* a body of the session endpoint without any of the keys the panel reads
NoPayloadFields ==
  [client_secret |-> Undef, error |-> Undef, details |-> Undef, message |-> Undef]

MessageObj(x) == Obj([message |-> x])

\* what the session endpoint may send as JSON
SessionData ==
  {Null, Str(<<"x">>), Arr(<<>>), Obj(NoPayloadFields)}
  \cup {Obj([NoPayloadFields EXCEPT !.client_secret = c]) :
          c \in {Str(sEmpty), Null, Num0, Str(<<"c","s">>), Num5}}
  \cup {Obj([NoPayloadFields EXCEPT !.error = e, !.message = Str(<<"m","1">>)]) :
          e \in {Str(<<"e","1">>), MessageObj(Str(<<"e","2">>)), MessageObj(Num5), Null}}
  \cup {Obj([NoPayloadFields EXCEPT !.details = d, !.client_secret = Str(<<"c","s">>)]) :
          d \in {Str(<<"d","1">>), Obj([error |-> Str(<<"d","2">>)]),
                 Obj([error |-> MessageObj(Str(<<"d","3">>))]), Obj([error |-> Num5])}}

\* fetch rejects (the network fails)
NetworkFailure ==
  [kind |-> "network", ok |-> FALSE, statusText |-> sEmpty, body |-> EmptyBody]

\* the response of the session endpoint: response.ok, response.statusText
\* and the text of the body
HttpReply(ok, statusText, body) ==
  [kind |-> "http", ok |-> ok, statusText |-> statusText, body |-> body]

SessionReplies ==
  {NetworkFailure}
  \cup {HttpReply(TRUE, sOK, b) :
          b \in {EmptyBody, InvalidBody} \cup {JsonBody(d) : d \in SessionData}}
  \cup {HttpReply(FALSE, st, b) :
          st \in {sEmpty, sBadRequest},
          b \in {EmptyBody, InvalidBody} \cup {JsonBody(d) : d \in SessionData}}

\* data: {} unless the body is not empty and parses
ParsedReply(reply) ==
  IF reply.body.kind = "json" THEN reply.body.val ELSE Obj(NoPayloadFields)

\* the message of the error thrown inside the try of getClientSecret, Undef
\* when nothing is thrown
ThrownBy(reply) ==
  IF reply.kind = "network" THEN Str(sFailedToFetch)
  ELSE IF ~reply.ok THEN Str(extractErrorDetail(ParsedReply(reply), reply.statusText))
  ELSE IF ~Truthy(OptGet(ParsedReply(reply), "client_secret")) THEN Str(sMissingClientSecret)
  ELSE Undef

\* the current secret the widget passes: none, or the one it holds
CurrentSecrets == {Null, Str(<<"o","l","d">>)}

\* getClientSecret(currentSecret) up to `await fetch(...)`, or to its throw
\* when the workflow is not configured
getClientSecret ==
  /\ isMounted
  /\ secretCall.pc = "idle"
  /\ \E cur \in CurrentSecrets :
       IF ~isWorkflowConfigured
       THEN /\ errors' = IF isMounted
                         THEN setErrorState(errors, [session |-> Str(sWorkflowUnset),
                                                     retryable |-> FALSE])
                         ELSE errors
            /\ isInitializingSession' = IF isMounted THEN FALSE ELSE isInitializingSession
            /\ secretCall' = [pc |-> "rejected", currentSecret |-> cur, reply |-> Undef,
                              out |-> Str(sWorkflowUnset)]
       ELSE /\ errors' = IF isMounted
                         THEN setErrorState(errors, [session |-> Null, integration |-> Null,
                                                     retryable |-> FALSE])
                         ELSE errors
            /\ isInitializingSession' =
                 IF isMounted /\ ~Truthy(cur) THEN TRUE ELSE isInitializingSession
            /\ secretCall' = [pc |-> "fetch", currentSecret |-> cur, reply |-> Undef,
                              out |-> Undef]
  /\ UNCHANGED <<scriptStatus, isMounted, customElement, timeoutId, widgetInstanceKey,
                 processedFacts, isWorkflowConfigured, externalCaller, errorLog,
                 factVars, nonPanelVars>>

\* getClientSecret resolving a rejected fetch as a credential
SessionReplyAlwaysReturns ==
  /\ secretCall.pc = "fetch"
  /\ \E reply \in SessionReplies :
       secretCall' = [secretCall EXCEPT !.pc = "returned", !.reply = reply,
                                        !.out = OptGet(ParsedReply(reply), "client_secret")]
  /\ errors' = IF isMounted
               THEN setErrorState(errors, [session |-> Null, integration |-> Null])
               ELSE errors
  /\ isInitializingSession' =
       IF isMounted /\ ~Truthy(secretCall.currentSecret) THEN FALSE
       ELSE isInitializingSession
  /\ UNCHANGED <<scriptStatus, isMounted, customElement, timeoutId, widgetInstanceKey,
                 processedFacts, isWorkflowConfigured, externalCaller, errorLog,
                 factVars, nonPanelVars>>

\* getClientSecret ending the initializing phase whatever secret it was given
SessionReplyEndsInitializing ==
  /\ secretCall.pc = "fetch"
  /\ \E reply \in SessionReplies :
       LET thrown == ThrownBy(reply)
       IN IF thrown = Undef
          THEN /\ errors' = IF isMounted
                            THEN setErrorState(errors, [session |-> Null, integration |-> Null])
                            ELSE errors
               /\ secretCall' = [secretCall EXCEPT
                                   !.pc = "returned", !.reply = reply,
                                   !.out = OptGet(ParsedReply(reply), "client_secret")]
          ELSE /\ errors' = IF isMounted
                            THEN setErrorState(errors, [session |-> thrown,
                                                        retryable |-> FALSE])
                            ELSE errors
               /\ secretCall' = [secretCall EXCEPT !.pc = "rejected", !.reply = reply,
                                                   !.out = thrown]
  /\ isInitializingSession' = IF isMounted THEN FALSE ELSE isInitializingSession
  /\ UNCHANGED <<scriptStatus, isMounted, customElement, timeoutId, widgetInstanceKey,
                 processedFacts, isWorkflowConfigured, externalCaller, errorLog,
                 factVars, nonPanelVars>>

\* getClientSecret from the answer of the fetch to its return or its throw
SessionReply ==
  /\ secretCall.pc = "fetch"
  /\ \E reply \in SessionReplies :
       LET thrown == ThrownBy(reply)
       IN IF thrown = Undef
          THEN /\ errors' = IF isMounted
                            THEN setErrorState(errors, [session |-> Null, integration |-> Null])
                            ELSE errors
               /\ secretCall' = [secretCall EXCEPT
                                   !.pc = "returned", !.reply = reply,
                                   !.out = OptGet(ParsedReply(reply), "client_secret")]
          ELSE /\ errors' = IF isMounted
                            THEN setErrorState(errors, [session |-> thrown,
                                                        retryable |-> FALSE])
                            ELSE errors
               /\ secretCall' = [secretCall EXCEPT !.pc = "rejected", !.reply = reply,
                                                   !.out = thrown]
  /\ isInitializingSession' =
       IF isMounted /\ ~Truthy(secretCall.currentSecret) THEN FALSE
       ELSE isInitializingSession
  /\ UNCHANGED <<scriptStatus, isMounted, customElement, timeoutId, widgetInstanceKey,
                 processedFacts, isWorkflowConfigured, externalCaller, errorLog,
                 factVars, nonPanelVars>>

\* the widget has the credential or the error
SecretDelivered ==
  /\ secretCall.pc \in {"returned", "rejected"}
  /\ secretCall' = NoCall
  /\ UNCHANGED <<scriptStatus, errors, isInitializingSession, isMounted, customElement,
                 timeoutId, widgetInstanceKey, processedFacts, isWorkflowConfigured,
                 externalCaller, errorLog, factVars, nonPanelVars>>

\* onError of the widget: console.error("ChatKit error", error)
onError ==
  /\ isMounted
  /\ errorLog < MaxLogged
  /\ errorLog' = errorLog + 1
  /\ UNCHANGED <<scriptStatus, errors, isInitializingSession, isMounted, customElement,
                 timeoutId, widgetInstanceKey, processedFacts, isWorkflowConfigured,
                 externalCaller, secretCall, factVars, nonPanelVars>>

\* onResponseStart of the widget
onResponseStart ==
  /\ isMounted
  /\ errors' = setErrorState(errors, [integration |-> Null, retryable |-> FALSE])
  /\ UNCHANGED <<scriptStatus, isInitializingSession, isMounted, customElement, timeoutId,
                 widgetInstanceKey, processedFacts, isWorkflowConfigured, externalCaller,
                 secretCall, errorLog, factVars, nonPanelVars>>

\* onThreadChange of the widget
onThreadChange ==
  /\ isMounted
  /\ processedFacts' = {}
  /\ factLog' = LogCleared(factLog)
  /\ UNCHANGED <<scriptStatus, errors, isInitializingSession, isMounted, customElement,
                 timeoutId, widgetInstanceKey, isWorkflowConfigured, externalCaller,
                 secretCall, errorLog, toolReturn, nonPanelVars>>

\* String(invocation.params.fact_id ?? "")
FactIds == {"", "f1"}

\* { success: true }
ToolSuccess == [success |-> TRUE]

\* record_fact forwarding a fact whatever processedFacts holds
recordFactUnchecked(id) ==
  /\ processedFacts' = processedFacts \cup {id}
  /\ factLog' = LogForwarded(factLog, id)
  /\ toolReturn' = ToolSuccess

\* onClientTool for record_fact, with id = String(params.fact_id ?? "")
recordFactOf(id) ==
  IF id = "" \/ id \in processedFacts
  THEN /\ toolReturn' = ToolSuccess
       /\ UNCHANGED <<processedFacts, factLog>>
  ELSE /\ processedFacts' = processedFacts \cup {id}
       /\ factLog' = LogForwarded(factLog, id)
       /\ toolReturn' = ToolSuccess

\* the widget invokes the client tool record_fact
recordFact ==
  /\ isMounted
  /\ \E id \in FactIds : recordFactOf(id)
  /\ UNCHANGED <<scriptStatus, errors, isInitializingSession, isMounted, customElement,
                 timeoutId, widgetInstanceKey, isWorkflowConfigured, externalCaller,
                 secretCall, errorLog, nonPanelVars>>

----------------------------------------------------------------------------
(* The message bridge of the chat panel: the listener for window messages   *)
(* and the delayed searches for the input of the widget.  One tick of `now` *)
(* is 100 ms, the unit of the retry delays.                                 *)

\* tryFindInput(attempt, maxAttempts = 5)
maxAttempts == 5

\* setTimeout(..., attempt * 100), in ticks
RetryDelay(attempt) == attempt

\* the origins a message may carry: the allowed one, one that extends it,
\* and the same host over http
Origins ==
  {sAllowedOrigin, sAllowedOrigin \o <<".","i","o">>,
   <<"h","t","t","p",":","/","/","d","k","s","i","n","s","u","r","a","n","c","e",
     ".","c","o","m">>}

PromptMessage(type, prompt) == Obj([type |-> type, prompt |-> prompt])

\* event.data
MessageData ==
  {Undef, Str(sInitPrompt),
   PromptMessage(Undef, Str(sP1)),
   PromptMessage(Str(sInitPromptLower), Str(sP1)),
   PromptMessage(Str(sInitPrompt), Str(sP1)),
   PromptMessage(Str(sInitPrompt), Str(sP2))}

\* what the handler meets in the document: no <openai-chatkit>, one with a
\* setInput method (that works or throws), one whose focusComposer throws,
\* one it searches through its shadow root
DomStates == {"absent", "setInput", "setInputThrows", "focusThrows", "shadow"}

\* the message listener lets a message through that fails the origin test
AcceptedAnyOrigin(origin, data) == OptGet(data, "type") = Str(sInitPrompt)

\* event.origin === "https://dksinsurance.com" and
\* event.data?.type === "INIT_PROMPT"
Accepted(origin, data) ==
  origin = sAllowedOrigin /\ OptGet(data, "type") = Str(sInitPrompt)

\* setElementValue(element, value): the value the element holds afterwards
setElementValue(value) == Str(JsString(value))

\* tryFindInput goes on after its last attempt
MayRetryOnceMore(attempt) == attempt <= maxAttempts

\* attempt < maxAttempts
MayRetry(attempt) == attempt < maxAttempts

\* tryFindInput(1): the first delayed search is scheduled
NewChain(prompt) ==
  [prompt |-> prompt, attempt |-> 1, delay |-> RetryDelay(1), due |-> now + RetryDelay(1),
   status |-> "pending", sets |-> 0]

\* no message yet, no input in the widget yet
BridgeIdle ==
  /\ now = 0
  /\ received = <<>>
  /\ chains = <<>>
  /\ inputReady = FALSE
  /\ inputValue = Undef

InitBridge ==
  /\ now = 0
  /\ received = <<>>
  /\ chains = <<>>
  /\ inputReady \in BOOLEAN
  /\ inputValue = Undef

\* handler(event), the listener for "message" on the window
handler ==
  /\ isMounted
  /\ Len(received) < MaxMessages
  /\ \E origin \in Origins, data \in MessageData, dom \in DomStates :
       LET incomingPrompt == Get(data, "prompt")
       IN IF ~Accepted(origin, data)
          THEN /\ dom = "absent"
               /\ received' = Append(received, [origin |-> origin, data |-> data,
                                                dom |-> "unseen"])
               /\ UNCHANGED <<chains, inputValue>>
          ELSE /\ received' = Append(received, [origin |-> origin, data |-> data,
                                                dom |-> dom])
               /\ CASE dom = "setInput" ->
                         /\ inputValue' = setElementValue(incomingPrompt)
                         /\ UNCHANGED chains
                    [] dom = "shadow" /\ inputReady ->
                         /\ inputValue' = setElementValue(incomingPrompt)
                         /\ UNCHANGED chains
                    [] dom = "shadow" /\ ~inputReady ->
                         /\ chains' = Append(chains, NewChain(incomingPrompt))
                         /\ UNCHANGED inputValue
                    [] OTHER -> UNCHANGED <<chains, inputValue>>
  /\ UNCHANGED <<now, inputReady, nonBridgeVars>>

\* the callback of the timer of tryFindInput(attempt)
tryFindInput(i) ==
  /\ i <= Len(chains)
  /\ chains[i].status = "pending"
  /\ chains[i].due <= now
  /\ IF inputReady
     THEN /\ inputValue' = setElementValue(chains[i].prompt)
          /\ chains' = [chains EXCEPT ![i].status = "set", ![i].sets = @ + 1]
     ELSE /\ UNCHANGED inputValue
          /\ chains' = IF MayRetry(chains[i].attempt)
                       THEN [chains EXCEPT ![i].attempt = @ + 1,
                                           ![i].delay = RetryDelay(chains[i].attempt + 1),
                                           ![i].due = now + RetryDelay(chains[i].attempt + 1)]
                       ELSE [chains EXCEPT ![i].status = "gaveup"]
  /\ UNCHANGED <<now, received, inputReady, nonBridgeVars>>

RetryTimers == \E i \in 1..MaxMessages : tryFindInput(i)

\* a timer is waiting
TimerPending == \E i \in DOMAIN chains : chains[i].status = "pending"

\* 100 ms pass; a timer that is due runs before more time passes
Tick ==
  /\ TimerPending
  /\ \A i \in DOMAIN chains : chains[i].status = "pending" => chains[i].due > now
  /\ now' = now + 1
  /\ UNCHANGED <<received, chains, inputReady, inputValue, nonBridgeVars>>

\* the widget renders its composer: the search finds an input from now on
ComposerRendered ==
  /\ ~inputReady
  /\ inputReady' = TRUE
  /\ UNCHANGED <<now, received, chains, inputValue, nonBridgeVars>>

----------------------------------------------------------------------------
(* The webhook handler *)

\* process.env: a variable is unset (Undef) or a string
EnvSet ==
  { [secret |-> sec, targetId |-> tid, targetName |-> tnm,
     sheetsId |-> sid, saEmail |-> Str(<<"e">>), saKey |-> key] :
      sec \in {Undef, Str(sEmpty), Str(sK1)},
      tid \in {Undef, Str(sA1), Str(<<" ">> \o sA1 \o <<" ">>), Str(<<" ">>)},
      tnm \in {Undef, Str(sN1)},
      sid \in {Undef, Str(<<"i">>)},
      key \in {Str(sEmpty), Str(<<"p">>)} }

\* the two signature headers of a request for `body`: absent (Null) or a string
HeaderPairs(body) ==
  LET h == HmacHex(body, sK1)
      w == HmacHex(body, sK2)
      o == HmacHex(IF body = EmptyBody THEN InvalidBody ELSE EmptyBody, sK1)
  IN { <<Str(h), Null>>, <<Null, Str(sPrefix \o h)>>, <<Null, Null>>,
       <<Str(w), Str(h)>>, <<Str(sEmpty), Str(h)>>, <<Str(o), Null>> }

Requests ==
  UNION { { [body |-> b, sigOpenAI |-> hp[1], sigX |-> hp[2]] : hp \in HeaderPairs(b) } :
          b \in PostBodies }

Absent == "<absent>"

\* json(payload, status): the payload's keys, Absent when the payload has none
Response(status, ok, ignored, reason, error) ==
  [status |-> status, ok |-> ok, ignored |-> ignored, reason |-> reason, error |-> error]

NoResponse == Response(0, Absent, Absent, Absent, Absent)

RespMissingSecret == Response(500, Absent, Absent, Absent, "Missing OPENAI_WEBHOOK_SECRET")
RespInvalidSignature == Response(401, Absent, Absent, Absent, "Invalid signature")
RespInvalidJson == Response(400, Absent, Absent, Absent, "Invalid JSON")
RespEmptyEvent == Response(400, Absent, Absent, Absent, "Empty event")
RespIgnored == Response(200, "true", "true", Absent, Absent)
RespIdMismatch == Response(200, "true", "true", "agent_id mismatch", Absent)
RespNameMismatch == Response(200, "true", "true", "agent_name mismatch", Absent)
RespAppendFailed == Response(500, Absent, Absent, Absent, "Sheets append failed")
RespOk == Response(200, "true", Absent, Absent, Absent)

\* request.headers.get("OpenAI-Signature") || request.headers.get("x-openai-signature") || ""
providedSig(r) == OrElse(OrElse(r.sigOpenAI, r.sigX), Str(sEmpty)).v

\* JSON.parse(rawBody) throws
ParseThrows(body) == body.kind = "invalid"

\* rawBody ? JSON.parse(rawBody) : null
Parsed(body) == IF body.kind = "empty" THEN Null ELSE body.val

\* the empty-event check as a test for null alone
IsEmptyEventNullOnly(e) == Nullish(e)

\* !evt
IsEmptyEvent(e) == ~Truthy(e)

\* the event type read from `event` before `type`
eventTypeEventFirst(e) ==
  JsString(Coalesce(Coalesce(Get(e, "event"), Get(e, "type")), Str(sEmpty)))

\* evt.type ?? evt.event ?? ""
eventTypeArg(e) == Coalesce(Coalesce(Get(e, "type"), Get(e, "event")), Str(sEmpty))

\* String(evt.type ?? evt.event ?? "")
eventType(e) == JsString(eventTypeArg(e))

\* /completed/i.test(s)
IsCompletion(s) == Contains(Lower(s), sCompleted)

\* process.env.X?.trim() || ""
TrimmedEnv(x) == IF Nullish(x) THEN sEmpty ELSE OrElse(Str(Trim(x.v)), Str(sEmpty)).v

targetAgentId(en) == TrimmedEnv(en.targetId)
targetAgentName(en) == TrimmedEnv(en.targetName)

\* agent?.id ?? ""
agentIdOf(a) == Coalesce(OptGet(a, "id"), Str(sEmpty))
\* agent?.name ?? ""
agentNameOf(a) == Coalesce(OptGet(a, "name"), Str(sEmpty))

\* evt.run_id ?? evt.run?.id ?? ""
runIdArg(i, e) ==
  IF i = "route"
  THEN Coalesce(Coalesce(Get(e, "run_id"), OptGet(Get(e, "run"), "id")), Str(sEmpty))
  ELSE Coalesce(Coalesce(Get(e, "run_id"),
                         IF isObj(Get(e, "run")) THEN Get(Get(e, "run"), "id") ELSE Undef),
                Str(sEmpty))

\* String(evt.run_id ?? evt.run?.id ?? "")
runIdOf(i, e) == JsString(runIdArg(i, e))

\* evt.user_id ?? evt.scope?.user_id ?? evt.run?.user_id ?? ""
userIdArg(i, e) ==
  IF i = "route"
  THEN Coalesce(Coalesce(Coalesce(Get(e, "user_id"),
                                  OptGet(Get(e, "scope"), "user_id")),
                         OptGet(Get(e, "run"), "user_id")),
                Str(sEmpty))
  ELSE Coalesce(Coalesce(Coalesce(Get(e, "user_id"),
         IF isObj(Get(e, "scope")) THEN Get(Get(e, "scope"), "user_id") ELSE Undef),
         IF isObj(Get(e, "run")) THEN Get(Get(e, "run"), "user_id") ELSE Undef),
         Str(sEmpty))

\* String(evt.user_id ?? evt.scope?.user_id ?? evt.run?.user_id ?? "")
userIdOf(i, e) == JsString(userIdArg(i, e))

\* payloadData ? JSON.stringify(payloadData) : ""
dataJsonOf(payloadData) ==
  IF Truthy(payloadData) THEN JsonStringify(payloadData) ELSE sEmpty

\* the params object handed to appendToSheet
RowOf(i, e, a) ==
  [timestamp |-> Str(sTimestamp),
   run_id |-> Str(runIdOf(i, e)),
   agent_id |-> agentIdOf(a),
   agent_name |-> agentNameOf(a),
   user_id |-> Str(userIdOf(i, e)),
   data_json |-> Str(dataJsonOf(extractAgentResult(i, e)))]

\* values: [[timestamp, runId, agentId, agentName, userId, dataJson]]
SheetValues(r) ==
  <<r.timestamp, r.run_id, r.agent_id, r.agent_name, r.user_id, r.data_json>>

\* the filter passing an event that matches either configured target
PassesFilterEither(en, a) ==
  \/ targetAgentId(en) = sEmpty /\ targetAgentName(en) = sEmpty
  \/ targetAgentId(en) # sEmpty /\ agentIdOf(a) = Str(targetAgentId(en))
  \/ targetAgentName(en) # sEmpty /\ agentNameOf(a) = Str(targetAgentName(en))

\* the target-agent filter lets the event through
PassesFilter(en, a) ==
  IF targetAgentId(en) # sEmpty
  THEN ~(~Truthy(agentIdOf(a)) \/ agentIdOf(a) # Str(targetAgentId(en)))
  ELSE IF targetAgentName(en) # sEmpty
  THEN ~(~Truthy(agentNameOf(a)) \/ agentNameOf(a) # Str(targetAgentName(en)))
  ELSE TRUE

FilterResponse(en) ==
  IF targetAgentId(en) # sEmpty THEN RespIdMismatch ELSE RespNameMismatch

\* appendToSheet throws "Missing Google Sheets env vars"
MissingSheetsEnv(en) ==
  ~Truthy(en.sheetsId) \/ ~Truthy(en.saEmail) \/ ~Truthy(en.saKey)

\* no request in flight
WebIdle ==
  /\ impl = "route"
  /\ req = [body |-> EmptyBody, sigOpenAI |-> Null, sigX |-> Null]
  /\ pc = "idle"
  /\ valid = "none"
  /\ evt = Undef
  /\ agent = Undef
  /\ row = Undef
  /\ resp = NoResponse
  /\ appended = <<>>
  /\ sheetLen = 0
  /\ calls = 0

VerifyIdle ==
  /\ vin = [body |-> EmptyBody, secret |-> sK1, provided |-> sEmpty]
  /\ vout = "none"

ExtractIdle ==
  /\ xin = [impl |-> "route", evt |-> Undef]
  /\ xout = Undef

ResultIdle ==
  /\ rin = [impl |-> "route", evt |-> Undef]
  /\ rout = Undef

\* the invocations of POST that run side by side
Handlers == {"h1", "h2"}

\* an invocation that has not received its request
IdleInvocation ==
  [pc |-> "idle", impl |-> "route",
   req |-> [body |-> EmptyBody, sigOpenAI |-> Null, sigX |-> Null],
   resp |-> NoResponse, row |-> Undef]

ConcurrentIdle ==
  /\ inv = [h \in Handlers |-> IdleInvocation]
  /\ sheet = <<>>

Init ==
  /\ env \in EnvSet
  /\ WebIdle
  /\ VerifyIdle
  /\ ExtractIdle
  /\ ResultIdle
  /\ ConcurrentIdle
  /\ PanelIdle
  /\ BridgeIdle

\* what POST makes of a request once its body is read: where it stops or
\* goes on (pc), its response, its locals, and the append calls it has issued
Outcome(p, ok, rs, e, a, rw, n) ==
  [pc |-> p, valid |-> IF ok THEN "true" ELSE "false", resp |-> rs,
   evt |-> e, agent |-> a, row |-> rw, calls |-> n]

\* POST from the signature check to the call of appendToSheet
Decide(en, i, r) ==
  LET ok == verifyHmacSha256(r.body, en.secret.v, providedSig(r))
      e == Parsed(r.body)
      a == extractAgent(i, e)
  IN IF ~ok
     THEN Outcome("done", ok, RespInvalidSignature, Undef, Undef, Undef, 0)
     ELSE IF ParseThrows(r.body)
     THEN Outcome("done", ok, RespInvalidJson, Undef, Undef, Undef, 0)
     ELSE IF IsEmptyEvent(e)
     THEN Outcome("done", ok, RespEmptyEvent, e, Undef, Undef, 0)
     ELSE IF StringThrows(eventTypeArg(e))
     THEN Outcome("threw", ok, NoResponse, e, Undef, Undef, 0)
     ELSE IF ~IsCompletion(eventType(e))
     THEN Outcome("done", ok, RespIgnored, e, Undef, Undef, 0)
     ELSE IF ~PassesFilter(en, a)
     THEN Outcome("done", ok, FilterResponse(en), e, a, Undef, 0)
     ELSE IF StringThrows(runIdArg(i, e)) \/ StringThrows(userIdArg(i, e))
     THEN Outcome("threw", ok, NoResponse, e, a, Undef, 0)
     ELSE IF MissingSheetsEnv(en)
     THEN Outcome("done", ok, RespAppendFailed, e, a, RowOf(i, e, a), 0)
     ELSE Outcome("append", ok, NoResponse, e, a, RowOf(i, e, a), 1)

\* POST up to `await request.text()`
Receive ==
  /\ pc = "idle"
  /\ sheetLen < MaxRows
  /\ \E i \in Impls, r \in Requests :
       /\ impl' = i
       /\ req' = r
  /\ IF ~Truthy(env.secret)
     THEN /\ resp' = RespMissingSecret
          /\ pc' = "done"
     ELSE /\ resp' = NoResponse
          /\ pc' = "body"
  /\ UNCHANGED <<env, valid, evt, agent, row, appended, sheetLen, calls, nonWebVars>>

\* POST from the body read to the call of sheets.spreadsheets.values.append,
\* to a response, or to an exception that leaves the handler
Process ==
  /\ pc = "body"
  /\ LET d == Decide(env, impl, req)
     IN /\ pc' = d.pc
        /\ valid' = d.valid
        /\ resp' = d.resp
        /\ evt' = d.evt
        /\ agent' = d.agent
        /\ row' = d.row
        /\ calls' = d.calls
  /\ UNCHANGED <<env, impl, req, appended, sheetLen, nonWebVars>>

\* the append call returns: the row is in the sheet
AppendOk ==
  /\ pc = "append"
  /\ appended' = Append(appended, row)
  /\ sheetLen' = sheetLen + 1
  /\ resp' = RespOk
  /\ pc' = "done"
  /\ UNCHANGED <<env, impl, req, valid, evt, agent, row, calls, nonWebVars>>

\* a failed append that has written its row all the same
AppendFailRowWritten ==
  /\ pc = "append"
  /\ appended' = Append(appended, row)
  /\ sheetLen' = sheetLen + 1
  /\ resp' = RespAppendFailed
  /\ pc' = "done"
  /\ UNCHANGED <<env, impl, req, valid, evt, agent, row, calls, nonWebVars>>

\* a failed append that is tried again
AppendFailRetried ==
  /\ pc = "append"
  /\ calls <= MaxRows
  /\ calls' = calls + 1
  /\ UNCHANGED <<env, impl, req, pc, valid, evt, agent, row, resp, appended, sheetLen,
                 nonWebVars>>

\* the service-account authentication or the append call throws
AppendFail ==
  /\ pc = "append"
  /\ resp' = RespAppendFailed
  /\ pc' = "done"
  /\ UNCHANGED <<env, impl, req, valid, evt, agent, row, appended, sheetLen, calls,
                 nonWebVars>>

\* the response is sent, or the exception has left the handler; the next
\* invocation starts with fresh locals
NextRequest ==
  /\ pc \in {"done", "threw"}
  /\ pc' = "idle"
  /\ impl' = "route"
  /\ req' = [body |-> EmptyBody, sigOpenAI |-> Null, sigX |-> Null]
  /\ valid' = "none"
  /\ evt' = Undef
  /\ agent' = Undef
  /\ row' = Undef
  /\ resp' = NoResponse
  /\ appended' = <<>>
  /\ calls' = 0
  /\ UNCHANGED <<env, sheetLen, nonWebVars>>

Next == Receive \/ Process \/ AppendOk \/ AppendFail \/ NextRequest

Spec == Init /\ [][Next]_vars

----------------------------------------------------------------------------
(* The two pure functions on their own *)

DefaultEnv == CHOOSE en \in EnvSet : Truthy(en.secret) /\ ~MissingSheetsEnv(en)

InitVerifySpec ==
  env = DefaultEnv /\ WebIdle /\ ExtractIdle /\ ResultIdle /\ ConcurrentIdle /\ PanelIdle
  /\ BridgeIdle
  /\ InitVerify

NextVerify == Verify /\ UNCHANGED <<webVars, extVars, resVars, conVars, panelVars, bridgeVars>>

\* verifyHmacSha256 applied to every (body, secret, signature) of the model
SpecVerify == InitVerifySpec /\ [][NextVerify]_vars

InitExtractSpec ==
  env = DefaultEnv /\ WebIdle /\ VerifyIdle /\ ResultIdle /\ ConcurrentIdle /\ PanelIdle
  /\ BridgeIdle
  /\ InitExtract

NextExtract == Extract /\ UNCHANGED <<webVars, verVars, resVars, conVars, panelVars, bridgeVars>>

\* extractAgent applied to every identity event of the model, in both copies
SpecExtract == InitExtractSpec /\ [][NextExtract]_vars

InitResultSpec ==
  env = DefaultEnv /\ WebIdle /\ VerifyIdle /\ ExtractIdle /\ ConcurrentIdle /\ PanelIdle
  /\ BridgeIdle
  /\ InitResult

NextResult == ExtractResult /\ UNCHANGED <<webVars, verVars, extVars, conVars, panelVars, bridgeVars>>

\* extractAgentResult applied to every payload event of the model, in both copies
SpecResult == InitResultSpec /\ [][NextResult]_vars

----------------------------------------------------------------------------
(* Invocations of POST side by side, on one sheet *)

\* configurations with the secret and the credentials set
ConcurrentEnvs ==
  { en \in EnvSet : /\ en.secret = Str(sK1)
                    /\ en.targetId \in {Undef, Str(sA1)}
                    /\ en.targetName = Undef
                    /\ en.saKey = Str(<<"p">>) }

\* an event of agent a1 with a run id, one of agent a2, and a run.started
ConcurrentBodies ==
  { JsonBody(Obj([CompletedFields EXCEPT !.agent = AgentObj(Str(sA1), Str(sN1)),
                                         !.run_id = Str(sR1), !.result = ResultX1])),
    JsonBody(Obj([CompletedFields EXCEPT !.agent = AgentObj(Str(sA2), Str(sN1)),
                                         !.result = ResultX1])),
    JsonBody(Obj([NoEventFields EXCEPT !.type = Str(sRunStarted),
                                       !.agent = AgentObj(Str(sA1), Str(sN1)),
                                       !.result = ResultX1])) }

\* each of them signed, and unsigned
ConcurrentRequests ==
  { r \in Requests : r.body \in ConcurrentBodies /\ r.sigX = Null
                     /\ r.sigOpenAI \in {Null, Str(HmacHex(r.body, sK1))} }

InFlight == {h \in Handlers : inv[h].pc # "idle"}

\* POST up to `await request.text()`, in invocation h
ReceiveC(h) ==
  /\ inv[h].pc = "idle"
  /\ Len(sheet) + Cardinality(InFlight) < MaxRows
  /\ \E i \in Impls, r \in ConcurrentRequests :
       inv' = [inv EXCEPT ![h] =
                 IF ~Truthy(env.secret)
                 THEN [pc |-> "done", impl |-> i, req |-> r,
                       resp |-> RespMissingSecret, row |-> Undef]
                 ELSE [pc |-> "body", impl |-> i, req |-> r,
                       resp |-> NoResponse, row |-> Undef]]
  /\ UNCHANGED <<env, sheet, nonConVars>>

\* POST from the body read to the call of the append, in invocation h
ProcessC(h) ==
  /\ inv[h].pc = "body"
  /\ LET d == Decide(env, inv[h].impl, inv[h].req)
     IN inv' = [inv EXCEPT ![h] = [@ EXCEPT !.pc = d.pc, !.resp = d.resp, !.row = d.row]]
  /\ UNCHANGED <<env, sheet, nonConVars>>

\* an append that leaves out a row whose run id the sheet already holds
AppendOkDedupC(h) ==
  /\ inv[h].pc = "append"
  /\ sheet' = IF \E n \in 1..Len(sheet) : sheet[n].run_id = inv[h].row.run_id
              THEN sheet
              ELSE Append(sheet, inv[h].row)
  /\ inv' = [inv EXCEPT ![h] = [@ EXCEPT !.pc = "done", !.resp = RespOk]]
  /\ UNCHANGED <<env, nonConVars>>

\* the append call of invocation h returns: its row is in the sheet
AppendOkC(h) ==
  /\ inv[h].pc = "append"
  /\ sheet' = Append(sheet, inv[h].row)
  /\ inv' = [inv EXCEPT ![h] = [@ EXCEPT !.pc = "done", !.resp = RespOk]]
  /\ UNCHANGED <<env, nonConVars>>

\* the append call of invocation h throws
AppendFailC(h) ==
  /\ inv[h].pc = "append"
  /\ inv' = [inv EXCEPT ![h] = [@ EXCEPT !.pc = "done", !.resp = RespAppendFailed]]
  /\ UNCHANGED <<env, sheet, nonConVars>>

\* invocation h has answered; its locals are gone
NextRequestC(h) ==
  /\ inv[h].pc \in {"done", "threw"}
  /\ inv' = [inv EXCEPT ![h] = IdleInvocation]
  /\ UNCHANGED <<env, sheet, nonConVars>>

Receives == \E h \in Handlers : ReceiveC(h)
Processes == \E h \in Handlers : ProcessC(h)
AppendOks == \E h \in Handlers : AppendOkC(h)
AppendFails == \E h \in Handlers : AppendFailC(h)
NextRequests == \E h \in Handlers : NextRequestC(h)

InitConcurrent ==
  /\ env \in ConcurrentEnvs
  /\ WebIdle
  /\ VerifyIdle
  /\ ExtractIdle
  /\ ResultIdle
  /\ ConcurrentIdle
  /\ PanelIdle
  /\ BridgeIdle

NextConcurrent == Receives \/ Processes \/ AppendOks \/ AppendFails \/ NextRequests

\* the handler serving requests side by side
SpecConcurrent == InitConcurrent /\ [][NextConcurrent]_vars

----------------------------------------------------------------------------
(* The chat panel on its own *)

InitPanelSpec ==
  /\ env = DefaultEnv
  /\ WebIdle
  /\ VerifyIdle
  /\ ExtractIdle
  /\ ResultIdle
  /\ ConcurrentIdle
  /\ InitPanel
  /\ BridgeIdle

NextPanel ==
  \/ ElementRegistered \/ ScriptLoaded \/ ScriptError \/ TimeoutFires \/ Unmount
  \/ handleResetChat \/ getClientSecret \/ SessionReply \/ SecretDelivered
  \/ onError \/ onResponseStart \/ onThreadChange \/ recordFact

\* the chat panel from its mount on
SpecPanel == InitPanelSpec /\ [][NextPanel]_vars

\* the detection of the script alone: the registration of the element, the
\* two window events, the timeout, a reset and the unmount
NextScript ==
  \/ ElementRegistered \/ ScriptLoaded \/ ScriptError \/ TimeoutFires \/ Unmount
  \/ handleResetChat

\* the browser runs the timeout the effect has set; whether the script
\* registers the element and whether a window event comes is up to the page
SpecScriptLive == InitPanelSpec /\ [][NextScript]_vars /\ WF_vars(TimeoutFires)

----------------------------------------------------------------------------
(* The message bridge on its own *)

InitBridgeSpec ==
  /\ env = DefaultEnv
  /\ WebIdle
  /\ VerifyIdle
  /\ ExtractIdle
  /\ ResultIdle
  /\ ConcurrentIdle
  /\ PanelIdle
  /\ InitBridge

NextBridge == handler \/ RetryTimers \/ Tick \/ ComposerRendered \/ Unmount

\* the bridge of a mounted panel
SpecBridge == InitBridgeSpec /\ [][NextBridge]_vars

\* the browser runs a timer that is due, and time passes
SpecBridgeLive == SpecBridge /\ WF_vars(RetryTimers) /\ WF_vars(Tick)

----------------------------------------------------------------------------
(* What the claims speak of, stated from the request and the configuration *)

\* the shared secret is configured
SecretConfigured(en) == en.secret.t = "str" /\ en.secret.v # sEmpty

\* the signature header consulted: the first of the two that is present and
\* not empty, else the empty signature
SigHeader(r) ==
  IF r.sigOpenAI.t = "str" /\ r.sigOpenAI.v # sEmpty THEN r.sigOpenAI.v
  ELSE IF r.sigX.t = "str" /\ r.sigX.v # sEmpty THEN r.sigX.v
  ELSE sEmpty

\* the signature is the hex digest of the body under the secret, bare or
\* behind `sha256=`
CorrectlySigned(en, r) ==
  /\ SecretConfigured(en)
  /\ SigHeader(r) \in {HmacHex(r.body, en.secret.v), sPrefix \o HmacHex(r.body, en.secret.v)}

\* the JSON values that JavaScript takes for false
FalsyJson == {Null, Num0, JFalse, Str(sEmpty)}

\* the event-type string: `type`, and `event` only when `type` is absent or null
EventTypeString(v) ==
  LET ty == Get(v, "type")
      ev == Get(v, "event")
  IN IF ty.t \notin {"undef", "null"} THEN JsString(ty)
     ELSE IF ev.t \notin {"undef", "null"} THEN JsString(ev)
     ELSE sEmpty

ContainsCompleted(s) ==
  \E i \in 1..Len(s) :
     /\ i + Len(sCompleted) - 1 <= Len(s)
     /\ \A j \in 1..Len(sCompleted) : LowerChar(s[i + j - 1]) = sCompleted[j]

\* a correctly signed request whose body is a completion event
CompletionRequest ==
  /\ CorrectlySigned(env, req)
  /\ req.body.kind = "json"
  /\ req.body.val.t = "obj"
  /\ ContainsCompleted(EventTypeString(req.body.val))

\* the configured target, blank meaning not configured
ConfiguredTarget(x) == IF x.t = "str" THEN Trim(x.v) ELSE sEmpty

\* the handler went on to the append
Forwarded == pc = "append" \/ (pc = "done" /\ resp \in {RespOk, RespAppendFailed})

RowFields == {"timestamp", "run_id", "agent_id", "agent_name", "user_id", "data_json"}

----------------------------------------------------------------------------
(* Claims *)

C2_FirstFailingGateDecides ==
  /\ pc = "body" => SecretConfigured(env)
  /\ pc \in {"append", "done"} =>
       /\ ~SecretConfigured(env) => resp = RespMissingSecret /\ valid = "none"
       /\ SecretConfigured(env) /\ ~CorrectlySigned(env, req) =>
            resp = RespInvalidSignature /\ evt = Undef
       /\ CorrectlySigned(env, req) /\ req.body.kind = "invalid" => resp = RespInvalidJson
       /\ CorrectlySigned(env, req) /\ (req.body.kind = "empty" \/ req.body = JsonBody(Null)) =>
            resp = RespEmptyEvent
       /\ resp = RespMissingSecret => ~SecretConfigured(env)
       /\ resp = RespInvalidSignature => SecretConfigured(env) /\ ~CorrectlySigned(env, req)
       /\ resp = RespInvalidJson => CorrectlySigned(env, req) /\ req.body.kind = "invalid"

C2_Witness ==
  /\ pc = "done" /\ resp = RespInvalidJson
  /\ CorrectlySigned(env, req) /\ req.body.kind = "invalid"

\* C3: verifyHmacSha256(B, S, sig) is true exactly when sig is the hex digest
\* of B under S, bare or behind `sha256=`; every other signature, the empty
\* one included, and the digest of any other body or secret give false.
C3_VerifyTrueIffDigest ==
  vout # "none" =>
    (vout = "true" <=>
       vin.provided \in {HmacHex(vin.body, vin.secret),
                         sPrefix \o HmacHex(vin.body, vin.secret)})

C3_Witness == vout = "true" /\ StartsWith(vin.provided, sPrefix)

\* C4: for a correctly signed completion event, a configured target id lets
\* exactly the events through whose resolved agent id equals it (the others
\* get 200 ignored "agent_id mismatch" and no row, the target name playing
\* no part); with only a target name configured the same holds of the name
\* ("agent_name mismatch"); with neither, every completion event goes on.
\* A target is configured when the variable is set and not blank, and is
\* compared without its surrounding white space.
C4_FilterByConfiguredTarget ==
  pc \in {"append", "done"} /\ CompletionRequest =>
    LET tid == ConfiguredTarget(env.targetId)
        tnm == ConfiguredTarget(env.targetName)
        a == extractAgent(impl, req.body.val)
    IN IF tid # sEmpty
       THEN /\ Forwarded <=> agentIdOf(a) = Str(tid)
            /\ ~Forwarded => resp = RespIdMismatch /\ appended = <<>> /\ row = Undef
       ELSE IF tnm # sEmpty
       THEN /\ Forwarded <=> agentNameOf(a) = Str(tnm)
            /\ ~Forwarded => resp = RespNameMismatch /\ appended = <<>> /\ row = Undef
       ELSE Forwarded

C4_Witness ==
  /\ pc = "done" /\ CompletionRequest /\ resp = RespIdMismatch
  /\ ConfiguredTarget(env.targetName) = sN1
  /\ agentNameOf(agent) = Str(sN1)

\* C5: a correctly signed, non-empty event whose event-type string does not
\* contain "completed" in any letter case gets 200 {ok, ignored} with no
\* reason and no row, whatever targets are configured and whatever agent it
\* names.
C5_NonCompletionIgnored ==
  ( /\ pc \in {"append", "done"}
    /\ CorrectlySigned(env, req)
    /\ req.body.kind = "json"
    /\ req.body.val \notin FalsyJson
    /\ ~ContainsCompleted(EventTypeString(req.body.val)) )
  => pc = "done" /\ resp = RespIgnored /\ appended = <<>> /\ row = Undef /\ agent = Undef

C5_Witness ==
  /\ pc = "done" /\ resp = RespIgnored
  /\ ConfiguredTarget(env.targetId) = sA1
  /\ Get(req.body.val, "type") = Str(sRunStarted)
  /\ Get(req.body.val, "event") = Str(sRunCompleted)

\* C6 as stated: a correctly signed request is rejected 400 "Empty event"
\* exactly when its body is empty or parses to null; 0, false and "" go on
\* to the event-type check.
C6_EmptyOnlyWhenEmptyOrNull ==
  pc = "done" /\ CorrectlySigned(env, req) /\ req.body.kind # "invalid" =>
    (resp = RespEmptyEvent <=> (req.body.kind = "empty" \/ req.body.val = Null))

\* C6 amended: a correctly signed request is rejected 400 "Empty event"
\* exactly when its body is empty or parses to a value JavaScript takes for
\* false (null, false, 0, the empty string); every other valid JSON body
\* goes on to the event-type check.
C6_EmptyWhenEmptyOrFalsy ==
  pc \in {"append", "done"} /\ CorrectlySigned(env, req) /\ req.body.kind # "invalid" =>
    IF req.body.kind = "empty" \/ req.body.val \in FalsyJson
    THEN pc = "done" /\ resp = RespEmptyEvent /\ appended = <<>>
    ELSE /\ resp # RespEmptyEvent
         /\ evt = req.body.val
         /\ ~ContainsCompleted(EventTypeString(evt)) => resp = RespIgnored

C6_Witness == pc = "done" /\ resp = RespEmptyEvent /\ req.body = JsonBody(Num0)

\* the first of the values that is neither absent nor null, else ""
FirstPresent(vals) ==
  LET present == {i \in 1..Len(vals) : vals[i].t \notin {"undef", "null"}}
  IN IF present = {} THEN Str(sEmpty)
     ELSE vals[CHOOSE i \in present : \A j \in present : i <= j]

\* C7: an event that passes every gate and whose append succeeds is answered
\* 200 {ok:true} with no ignored flag, and its one row carries the resolved
\* agent id and name, run_id from `run_id` else `run.id`, user_id from
\* `user_id` else `scope.user_id` else `run.user_id`, and in data_json the
\* JSON text of the extracted result (empty when no result was found).
C7_AcceptedRowCarriesExtractedFields ==
  Len(appended) = 1 =>
    LET r == appended[1]
        v == req.body.val
        a == extractAgent(impl, v)
        result == extractAgentResult(impl, v)
    IN /\ pc = "done" /\ resp = RespOk
       /\ r.agent_id = agentIdOf(a)
       /\ r.agent_name = agentNameOf(a)
       /\ r.run_id = Str(JsString(FirstPresent(<<Get(v, "run_id"), Get(Get(v, "run"), "id")>>)))
       /\ r.user_id = Str(JsString(FirstPresent(<<Get(v, "user_id"),
                                                   Get(Get(v, "scope"), "user_id"),
                                                   Get(Get(v, "run"), "user_id")>>)))
       /\ r.data_json = Str(IF result = Null THEN sEmpty ELSE JsonStringify(result))

\* the id/name pair a candidate holds, as the copy serving the request reads it
PairOf(i, c) ==
  IF i = "route" THEN <<Get(c, "id"), Get(c, "name")>>
  ELSE <<asString(Get(c, "id")), asString(Get(c, "name"))>>

\* the candidate objects in probing order
Candidates(v) ==
  << Get(v, "agent"), Get(v, "target_agent"), Get(Get(v, "step"), "agent"),
     Get(Get(Get(v, "run"), "last_step"), "agent") >>

\* a candidate that exists and has its id or its name set
Usable(c) == c.t = "obj" /\ (Truthy(Get(c, "id")) \/ Truthy(Get(c, "name")))

\* the flat fields, each looked up at the root, then `step`, then `run`
FlatFields(i, v) ==
  LET id == FirstPresent(<<Get(v, "agent_id"), Get(Get(v, "step"), "agent_id"),
                           Get(Get(v, "run"), "agent_id")>>)
      name == FirstPresent(<<Get(v, "agent_name"), Get(Get(v, "step"), "agent_name"),
                             Get(Get(v, "run"), "agent_name")>>)
  IN IF i = "route" THEN <<id, name>> ELSE <<asString(id), asString(name)>>

\* the identity of the first usable location, absent fields read as ""
FirstUsable(i, v) ==
  LET usable == {n \in 1..Len(Candidates(v)) : Usable(Candidates(v)[n])}
      pair == IF usable # {}
              THEN PairOf(i, Candidates(v)[CHOOSE n \in usable : \A m \in usable : n <= m])
              ELSE FlatFields(i, v)
  IN <<Coalesce(pair[1], Str(sEmpty)), Coalesce(pair[2], Str(sEmpty))>>

\* C8: extractAgent returns the id/name pair of the first location, in the
\* order `agent`, `target_agent`, `step.agent`, `run.last_step.agent`, flat
\* fields, that exists and has its id or its name set; a candidate with
\* neither is passed over.
C8_FirstUsableLocationWins ==
  xout # Undef =>
    <<agentIdOf(xout), agentNameOf(xout)>> = FirstUsable(xin.impl, xin.evt)

\* every place an id/name pair may be read from: the four candidate objects
\* and the flat fields of the root, of `step` and of `run`
LocationPairs(i, v) ==
  { PairOf(i, Candidates(v)[n]) : n \in 1..Len(Candidates(v)) }
  \cup { IF i = "route" THEN <<Get(o, "agent_id"), Get(o, "agent_name")>>
         ELSE <<asString(Get(o, "agent_id")), asString(Get(o, "agent_name"))>> :
         o \in {v, Get(v, "step"), Get(v, "run")} }

\* C9: the id and the name that extractAgent returns come from one location
\* of the event; with the flat fields, a root that has `agent_id` and no
\* `agent_name` gives no name even if `step` or `run` has an `agent_name`.
C9_IdAndNameFromOneLocation ==
  xout # Undef /\ xout # Null =>
    /\ \E pair \in LocationPairs(xin.impl, xin.evt) :
         <<agentIdOf(xout), agentNameOf(xout)>>
           = <<Coalesce(pair[1], Str(sEmpty)), Coalesce(pair[2], Str(sEmpty))>>
    /\ ( /\ \A n \in 1..Len(Candidates(xin.evt)) : ~Truthy(Candidates(xin.evt)[n])
         /\ ~Nullish(Get(xin.evt, "agent_id"))
         /\ Nullish(Get(xin.evt, "agent_name")) )
       => agentNameOf(xout) = Str(sEmpty)

\* C10: the resolved agent id and name are each a string of the event or
\* absent, and the row's agent_id and agent_name are strings: a number,
\* boolean, object or array id or name is written as "".
C10_IdentityIsStringOrAbsent ==
  /\ agent.t = "obj" =>
       /\ Get(agent, "id").t \in {"str", "undef"}
       /\ Get(agent, "name").t \in {"str", "undef"}
  /\ row # Undef => row.agent_id.t = "str" /\ row.agent_name.t = "str"
  /\ \A i \in 1..Len(appended) :
       appended[i].agent_id.t = "str" /\ appended[i].agent_name.t = "str"

\* the six places a result payload may live, in probing order
ResultLocations(v) ==
  << Get(v, "result"), Get(v, "output"), Get(v, "data"),
     Get(Get(v, "step"), "result"), Get(Get(v, "step"), "output"),
     Get(Get(v, "run"), "result") >>

\* the places that hold a value other than null
HeldLocations(v) ==
  {n \in 1..Len(ResultLocations(v)) : ResultLocations(v)[n].t \notin {"undef", "null"}}

\* C11: extractAgentResult returns the value of the first of root `result`,
\* root `output`, root `data`, `step.result`, `step.output`, `run.result`
\* that is neither null nor undefined (0, false and "" at an earlier place
\* win over any later value), and null when no place holds one.
C11_FirstNonNullResultWins ==
  rout # Undef =>
    LET held == HeldLocations(rin.evt)
    IN IF held = {} THEN rout = Null
       ELSE rout = ResultLocations(rin.evt)[CHOOSE n \in held : \A m \in held : n <= m]

C11_Witness ==
  /\ rout = Num0
  /\ Get(rin.evt, "output") = Str(<<"o">>)
  /\ Get(Get(rin.evt, "step"), "result") = Str(<<"h","i">>)

\* C12: the data_json of an appended row is the JSON text of the extracted
\* result for every result that is not null, of any JSON type, 0, false and
\* "" included; it is "" only when no place holds a result, and is never the
\* text "null".
C12_DataJsonSerializesEveryResult ==
  \A n \in 1..Len(appended) :
    LET v == req.body.val
        held == HeldLocations(v)
    IN /\ appended[n].data_json # Str(sNullText)
       /\ held = {} <=> appended[n].data_json = Str(sEmpty)
       /\ held # {} =>
            appended[n].data_json =
              Str(JsonStringify(ResultLocations(v)[CHOOSE k \in held : \A m \in held : k <= m]))

\* C13: a row handed to the append has the six values timestamp, run_id,
\* agent_id, agent_name, user_id, data_json in that order, each of them a
\* string; a field the event lacks is "", never null, undefined or a value
\* that is not a string.
C13_RowIsSixStrings ==
  row # Undef =>
    LET vals == SheetValues(row)
        v == req.body.val
    IN /\ Len(vals) = 6
       /\ DOMAIN row = RowFields
       /\ vals[1] = row.timestamp /\ vals[2] = row.run_id /\ vals[3] = row.agent_id
       /\ vals[4] = row.agent_name /\ vals[5] = row.user_id /\ vals[6] = row.data_json
       /\ \A n \in 1..Len(vals) : vals[n].t = "str"
       /\ Nullish(Get(v, "run_id")) /\ Nullish(Get(Get(v, "run"), "id")) => row.run_id = Str(sEmpty)
       /\ HeldLocations(v) = {} => row.data_json = Str(sEmpty)

\* the spreadsheet id or a credential is not configured
SheetsUnconfigured(en) ==
  \E x \in {en.sheetsId, en.saEmail, en.saKey} : x.t # "str" \/ x.v = sEmpty

\* C14: when the append step fails (configuration missing, authentication
\* or the append call throwing) the response is 500 "Sheets append failed"
\* and no row is appended; the append is called at most once per request.
C14_AppendFailureNotRetried ==
  /\ calls <= 1
  /\ pc = "done" /\ row # Undef /\ SheetsUnconfigured(env) =>
       resp = RespAppendFailed /\ appended = <<>> /\ calls = 0
  /\ pc = "done" /\ calls = 1 /\ appended = <<>> => resp = RespAppendFailed
  /\ resp = RespAppendFailed => pc = "done" /\ row # Undef /\ appended = <<>>

C14_Witness ==
  pc = "done" /\ resp = RespAppendFailed /\ calls = 1 /\ ~SheetsUnconfigured(env)

\* C15: every request ends in one JSON response of status 200, 400, 401 or
\* 500 and no exception leaves the handler, whatever the body; the status is
\* 200 exactly when the event was forwarded or ignored by policy, and the
\* response has an `error` exactly when its status is not 200.
C15_AlwaysOneJsonResponse ==
  /\ pc # "threw"
  /\ pc = "done" =>
       /\ resp.status \in {200, 400, 401, 500}
       /\ resp.status = 200 <=>
            \/ resp = RespOk /\ Len(appended) = 1
            \/ resp \in {RespIgnored, RespIdMismatch, RespNameMismatch} /\ appended = <<>>
       /\ resp.error # Absent <=> resp.status # 200

\* the responses a request may get under a configuration, whatever else is
\* going on: the gates decide, and the storage service answers the append
ExpectedResponses(en, i, r) ==
  LET tid == ConfiguredTarget(en.targetId)
      tnm == ConfiguredTarget(en.targetName)
      a == extractAgent(i, r.body.val)
  IN IF ~SecretConfigured(en) THEN {RespMissingSecret}
     ELSE IF ~CorrectlySigned(en, r) THEN {RespInvalidSignature}
     ELSE IF r.body.kind = "invalid" THEN {RespInvalidJson}
     ELSE IF r.body.kind = "empty" \/ r.body.val \in FalsyJson THEN {RespEmptyEvent}
     ELSE IF ~ContainsCompleted(EventTypeString(r.body.val)) THEN {RespIgnored}
     ELSE IF tid # sEmpty /\ agentIdOf(a) # Str(tid) THEN {RespIdMismatch}
     ELSE IF tid = sEmpty /\ tnm # sEmpty /\ agentNameOf(a) # Str(tnm) THEN {RespNameMismatch}
     ELSE IF SheetsUnconfigured(en) THEN {RespAppendFailed}
     ELSE {RespOk, RespAppendFailed}

\* the invocations that answer 200 {ok:true} in this step
AnsweringOk ==
  {h \in Handlers : inv[h].resp # RespOk /\ inv'[h].resp = RespOk}

\* C16: the handler keeps no state across invocations: the response of a
\* request is one its own content and the configuration allow, whatever
\* requests came before or run beside it, and a row is added to the sheet in
\* exactly the steps that answer a request 200 {ok:true}, so that an
\* accepted event delivered N times adds N rows.
C16_NoStateAcrossInvocations ==
  /\ [](\A h \in Handlers :
          /\ inv[h].pc = "done" =>
               inv[h].resp \in ExpectedResponses(env, inv[h].impl, inv[h].req)
          /\ inv[h].resp = RespOk =>
               \E n \in 1..Len(sheet) : sheet[n] = inv[h].row)
  /\ [][ /\ AnsweringOk # {} => sheet' = Append(sheet, inv[CHOOSE h \in AnsweringOk : TRUE].row)
         /\ AnsweringOk = {} => sheet' = sheet ]_vars

C16_Witness ==
  /\ inv["h1"].pc = "done" /\ inv["h2"].pc = "done"
  /\ inv["h1"].req = inv["h2"].req
  /\ inv["h1"].resp = RespOk /\ inv["h2"].resp = RespOk
  /\ Len(sheet) = 2 /\ sheet[1] = sheet[2]
  /\ sheet[1].run_id = Str(sR1)

\* C17: scriptStatus is one of pending, ready, error, and unless a reset
\* intervenes it changes only from pending, to ready or to error: once it is
\* ready or error, no loaded event, error event or timeout changes it.
C17_ScriptStatusLeavesOnlyPending ==
  /\ [](scriptStatus \in {"pending", "ready", "error"})
  /\ [][ scriptStatus' # scriptStatus =>
           \/ widgetInstanceKey' # widgetInstanceKey
           \/ scriptStatus = "pending" /\ scriptStatus' \in {"ready", "error"} ]_vars

\* C18: a reset leaves the dedup set empty, the three errors null and
\* retryable false, initializing true, scriptStatus at its value of the first
\* render (ready if the custom element is registered, else pending) and the
\* widget instance counter one higher; only a reset changes the counter, and
\* it never goes down.
C18_ResetRestoresInitialState ==
  [][ widgetInstanceKey' # widgetInstanceKey =>
        /\ handleResetChat
        /\ widgetInstanceKey' = widgetInstanceKey + 1
        /\ processedFacts' = {}
        /\ errors'.script = Null /\ errors'.session = Null /\ errors'.integration = Null
        /\ errors'.retryable = FALSE
        /\ isInitializingSession' = TRUE
        /\ scriptStatus' = IF customElement' THEN "ready" ELSE "pending" ]_vars

C18_Witness ==
  /\ widgetInstanceKey = 1
  /\ ~isWorkflowConfigured
  /\ ~customElement
  /\ scriptStatus = "pending" /\ isInitializingSession
  /\ errors.session = Null /\ errors.script = Null
  /\ processedFacts = {}

\* a credential that is there and not empty
NonEmptyCredential(x) ==
  x.t \notin {"undef", "null"} /\ x \notin {Str(sEmpty), Num0, JFalse}

\* the endpoint answered 2xx with an object that holds a credential
GoodReply(reply) ==
  /\ reply # Undef
  /\ reply.kind = "http" /\ reply.ok
  /\ reply.body.kind = "json"
  /\ reply.body.val.t = "obj"
  /\ NonEmptyCredential(Get(reply.body.val, "client_secret"))

\* C19: getClientSecret returns the credential exactly when the workflow is
\* configured and the endpoint answers 2xx with a body that parses to an
\* object with a client_secret that is not empty, and then errors.session
\* and errors.integration are null; in every other case (workflow not
\* configured, network failure, non-2xx, body that does not parse, no
\* credential) it rejects with an error and, while mounted, errors.session
\* is not null.
C19_SessionFetchOutcome ==
  [][ secretCall.pc \in {"idle", "fetch"} /\ secretCall'.pc \in {"returned", "rejected"} =>
        /\ secretCall'.pc = "returned" <=>
             isWorkflowConfigured /\ GoodReply(secretCall'.reply)
        /\ secretCall'.pc = "returned" =>
             /\ secretCall'.out = Get(secretCall'.reply.body.val, "client_secret")
             /\ errors'.session = Null /\ errors'.integration = Null
        /\ secretCall'.pc = "rejected" =>
             /\ secretCall'.out.t = "str"
             /\ isMounted' => errors'.session # Null ]_vars

C19_Witness ==
  /\ secretCall.pc = "returned"
  /\ secretCall.out = Str(<<"c","s">>)
  /\ Get(secretCall.reply.body.val, "details") # Undef
  /\ isMounted /\ errors.session = Null

\* C20: an error hides the widget exactly when errors.script or
\* errors.session is not null; onError of the widget changes no error field
\* and does not hide the widget, and errors.integration is null in every
\* reachable state.
C20_OnlyScriptAndSessionBlock ==
  /\ [](/\ errors.integration = Null
        /\ blockingError(errors) # Null <=> (errors.script # Null \/ errors.session # Null)
        /\ BlockedByError(errors) <=> blockingError(errors) # Null)
  /\ [][ errorLog' # errorLog =>
           /\ errors' = errors
           /\ WidgetHidden(errors', isInitializingSession')
                = WidgetHidden(errors, isInitializingSession) ]_vars

\* a received message from the allowed origin whose data type is INIT_PROMPT
IsInitPrompt(m) ==
  /\ m.origin = sAllowedOrigin
  /\ m.data.t = "obj"
  /\ "type" \in DOMAIN m.data.f
  /\ m.data.f.type = Str(sInitPrompt)

\* the prompts of the messages received so far that are such messages
AllowedPrompts ==
  {received[i].data.f.prompt : i \in {j \in DOMAIN received : IsInitPrompt(received[j])}}

\* C21: the input of the widget gets a value only in response to a window
\* message from the allowed origin whose data type is INIT_PROMPT: a value
\* it holds and every scheduled retry come from such a message, and a
\* message of another origin or another type sets no value, schedules no
\* timer and leaves the state of the component unchanged.
C21_OnlyAllowedInitPromptActs ==
  /\ [](/\ inputValue # Undef => inputValue \in AllowedPrompts
        /\ \A i \in DOMAIN chains : chains[i].prompt \in AllowedPrompts
        /\ Len(chains) <= Cardinality({j \in DOMAIN received : IsInitPrompt(received[j])}))
  /\ [][ Len(received') > Len(received) /\ ~IsInitPrompt(received'[Len(received')]) =>
           UNCHANGED <<inputValue, chains, now, inputReady, panelVars>> ]_vars

C21_Witness ==
  /\ Len(received) = 2
  /\ received[1].origin = sAllowedOrigin \o <<".","i","o">>
  /\ received[1].data = PromptMessage(Str(sInitPrompt), Str(sP1))
  /\ IsInitPrompt(received[2])
  /\ inputValue = Str(sP2)
  /\ chains = <<>>

\* the retry chain i has ended: the value is set, or the search is given up
ChainEnded(i) == i <= Len(chains) /\ chains[i].status \in {"set", "gaveup"}

\* C22: a search that does not find the input at once is tried again at
\* most 5 times, each time after a longer delay; it stops at the first
\* attempt that finds the input and sets the value once, or gives up after
\* the 5th; every chain ends, with no timer of it left, and giving up
\* changes no state of the panel and not the input.
C22_RetryChainIsBoundedAndEnds ==
  /\ [](\A i \in DOMAIN chains :
          /\ chains[i].attempt \in 1..5
          /\ chains[i].sets = (IF chains[i].status = "set" THEN 1 ELSE 0)
          /\ chains[i].status = "gaveup" => chains[i].attempt = 5
          /\ chains[i].status = "pending" => chains[i].due <= now + chains[i].delay)
  /\ [][ \A i \in DOMAIN chains :
           /\ chains[i].status # "pending" => chains'[i] = chains[i]
           /\ chains'[i] # chains[i] =>
                /\ chains[i].due <= now
                /\ IF inputReady
                   THEN chains'[i].status = "set" /\ inputValue' = chains[i].prompt
                   ELSE /\ inputValue' = inputValue
                        /\ IF chains[i].attempt < 5
                           THEN /\ chains'[i].status = "pending"
                                /\ chains'[i].attempt = chains[i].attempt + 1
                                /\ chains'[i].delay > chains[i].delay
                                /\ chains'[i].due = now + chains'[i].delay
                           ELSE /\ chains'[i].status = "gaveup"
                                /\ UNCHANGED panelVars ]_vars
  /\ \A i \in 1..MaxMessages : (i <= Len(chains)) ~> ChainEnded(i)
  /\ <>[](~TimerPending)

C22_Witness ==
  /\ Len(chains) = 2
  /\ chains[1].status = "gaveup" /\ chains[1].attempt = 5
  /\ chains[2].status = "set" /\ chains[2].attempt = 3
  /\ inputValue = chains[2].prompt

\* no clear of the dedup set lies between the entries i and j of the record
SameSegment(i, j) == \A k \in i..j : factLog[k] # "clear"

FetchEnds ==
  secretCall.pc \in {"idle", "fetch"} /\ secretCall'.pc \in {"returned", "rejected"}

\* C24: when a call of getClientSecret ends while the component is mounted,
\* by a return or by a throw, with or without a current secret,
\* initializing is false afterwards; it is false too once the workflow is
\* found unconfigured and once a script load error is handled.
C24_InitializingEndsWithFetch ==
  /\ [][ FetchEnds /\ isMounted' => ~isInitializingSession' ]_vars
  /\ [][ (ScriptError \/ TimeoutFires) /\ scriptStatus' = "error" /\ errors' # errors =>
           ~isInitializingSession' ]_vars
  /\ [](isMounted /\ ~isWorkflowConfigured /\ widgetInstanceKey = 0 =>
          ~isInitializingSession)

\* C24, amended: when a call of getClientSecret made without a current
\* secret ends while the component is mounted, by a return or by a throw,
\* initializing is false afterwards, and so it is when the call finds the
\* workflow unconfigured; a call made with a current secret for a configured
\* workflow leaves initializing as it was.  Initializing is false too once
\* the workflow is found unconfigured at mount and once a script load error
\* is handled.
C24_InitializingEndsWithFirstFetch ==
  /\ [][ FetchEnds /\ isMounted' =>
           IF secretCall'.currentSecret \in {Null, Str(sEmpty)} \/ ~isWorkflowConfigured
           THEN ~isInitializingSession'
           ELSE isInitializingSession' = isInitializingSession ]_vars
  /\ [][ (ScriptError \/ TimeoutFires) /\ scriptStatus' = "error" /\ errors' # errors =>
           ~isInitializingSession' ]_vars
  /\ [](isMounted /\ ~isWorkflowConfigured /\ widgetInstanceKey = 0 =>
          ~isInitializingSession)

C24_Witness ==
  /\ secretCall.pc = "returned"
  /\ secretCall.currentSecret = Str(<<"o","l","d">>)
  /\ isMounted /\ isInitializingSession
  /\ errors.session = Null

\* C25: while the component stays mounted scriptStatus does not stay
\* pending for ever: it becomes ready or error; and when the element is not
\* registered as the timeout fires, the timeout sets scriptStatus to error,
\* errors.script to a message and initializing to false.
C25_PendingDoesNotLast ==
  /\ (isMounted /\ scriptStatus = "pending") ~>
       (~isMounted \/ scriptStatus \in {"ready", "error"})
  /\ [][ TimeoutFires /\ ~customElement =>
           /\ scriptStatus' = "error"
           /\ errors'.script \notin {Null, Str(sEmpty)}
           /\ ~isInitializingSession' ]_vars

\* C26: the script error and the session error do not touch each other: a
\* script-loaded event, a script-error event and the load timeout leave
\* errors.session as it was, a call of getClientSecret leaves errors.script
\* as it was whether it returns or throws, and both can be non-null at once.
C26_ScriptAndSessionErrorsIndependent ==
  /\ [][ ScriptLoaded \/ ScriptError \/ TimeoutFires =>
           errors'.session = errors.session ]_vars
  /\ [][ getClientSecret \/ SessionReply \/ SecretDelivered =>
           errors'.script = errors.script ]_vars

C26_Witness ==
  /\ errors.script = Str(sErrorColon \o sUnavailable)
  /\ errors.session = Str(sFailedToFetch)
  /\ secretCall.pc = "rejected"
  /\ isMounted

\* C27: errors.retryable is false in every reachable state, so the overlay
\* never offers the retry (onRetry is null), and unless a caller outside the
\* component calls handleResetChat the widget instance counter stays 0.
C27_RetryNeverOffered ==
  /\ errors.retryable = FALSE
  /\ ~(blockingError(errors) \notin {Null, Str(sEmpty)} /\ errors.retryable)
  /\ ~externalCaller => widgetInstanceKey = 0

C27_Witness ==
  /\ ~externalCaller
  /\ isMounted
  /\ errors.script # Null /\ errors.session # Null
  /\ widgetInstanceKey = 0
  /\ secretCall.pc = "idle"

\* the message i went through the search of the shadow root (the fallback
\* taken when the element has no setInput)
ThroughFallback(i) == IsInitPrompt(received[i]) /\ received[i].dom = "shadow"

\* C28: when two INIT_PROMPT messages of the allowed origin are received
\* one after the other and both go through the DOM fallback, then, once
\* all their retry timers are done, the value the input holds is the prompt
\* of the later message.
C28_LaterPromptWins ==
  /\ Len(received) >= 2
  /\ ThroughFallback(1) /\ ThroughFallback(2)
  /\ ~TimerPending
  /\ inputValue # Undef
  => inputValue = received[2].data.f.prompt

====
